---- MODULE Spec2Model ----
(***************************************************************************)
(* Model of the voter chaincode (package auction): the ballot-poll         *)
(* lifecycle on a key-value ledger.  One action per transaction function;  *)
(* every transaction is one atomic read-validate-write invocation.         *)
(*                                                                         *)
(* The repository holds several generations of the contract.  A deployment *)
(* installs one of them; the variable `variant` names it:                  *)
(*   "flag"    smart-contract/thread.go + the current anonymous contract   *)
(*             (vote key = (thread, tx, collection, user), value true /    *)
(*             false);                                                     *)
(*   "indexed" the IssuedVotes generation (per-thread index tx -> used);   *)
(*   "bare"    the earliest generation and its anonymous contract (vote    *)
(*             key = (thread, tx, collection), value "vote").              *)
(***************************************************************************)
EXTENDS Integers, Sequences, FiniteSets, TLC

VARIABLES
    variant,    \* which generation of the contract is deployed
    ledger,     \* world state, simple keys: key -> stored JSON document
    voteState,  \* world state, composite "vote" keys: key tuple -> bytes
    nextTx,     \* the next fresh transaction id handed out by the platform
    redeemed,   \* history: the casts that succeeded, <<vote key, option>>
    issuedBy,   \* history: the issuances that succeeded, <<vote key, issuer>>
    pending,    \* endorsed transactions that wait for validation, in flight
    version     \* the committed version of every key of the world state

vars == <<variant, ledger, voteState, nextTx, redeemed, issuedBy,
          pending, version>>

\* The state of the ordering pipeline; an invocation that is simulated and
\* committed in one step leaves it alone.
mvcc == <<pending, version>>

\* ------------------------------------------------------------------ bounds

\* Number of transaction ids the platform hands out to CreateVote.
MaxTx == 2

\* Number of votes and commitments the earliest generation is run up to.
MaxCasts == 2

\* ------------------------------------------------------------ environment

Variants == {"flag", "indexed"}

ThreadIDs == {"P1"}

\* threadID + "_votes"
VotesKey(threadID) ==
    CASE threadID = "P1" -> "P1_votes"
      [] threadID = "P1_votes" -> "P1_votes_votes"
      [] OTHER -> "other_votes"

\* The poll IDs of a deployment in which a poll is named like the
\* issued-votes index of another.
IndexThreadIDs == {"P1", "P1_votes"}

LedgerKeys == IndexThreadIDs \cup {VotesKey(t) : t \in IndexThreadIDs}

\* A caller: the identity string (GetSubmittingClientIdentity), the
\* enrollment id (attribute hf.EnrollmentID) and the organization (MSPID).
Clients ==
    { [id |-> "x509::alice", enroll |-> "alice", org |-> "Org1MSP"],
      [id |-> "x509::bob",   enroll |-> "bob",   org |-> "Org1MSP"],
      [id |-> "x509::bob2",  enroll |-> "bob",   org |-> "Org2MSP"] }

UserIDs == {c.enroll : c \in Clients}

TxIDs == 1..MaxTx

OptionLabels == {"A", "B", "C"}

\* The option arguments a poll is created with (args[5:]).
OptionLists == { <<>>, <<"A", "B", "A">>, <<"A", "B", "C">> }

\* ------------------------------------------------------------- documents

Range(s) == {s[i] : i \in 1..Len(s)}

NoOptions == [o \in {} |-> <<>>]

\* The number of entries in the lists of an option map.
RECURSIVE SumLen(_, _)
SumLen(options, labels) ==
    IF labels = {} THEN 0
    ELSE LET o == CHOOSE x \in labels : TRUE
         IN  Len(options[o]) + SumLen(options, labels \ {o})

\* GetState returns nil for a key that was never written.
Nil ==
    [shape |-> "nil", category |-> "", theme |-> "", description |-> "",
     creator |-> "", options |-> NoOptions, win_option |-> <<>>,
     status |-> "", votes |-> <<>>, issued |-> NoOptions]

\* json.Marshal of a Thread: no "votes" key.
MarshalThread(th) ==
    [shape |-> "Thread", category |-> th.category, theme |-> th.theme,
     description |-> th.description, creator |-> th.creator,
     options |-> th.options, win_option |-> th.win_option,
     status |-> th.status, votes |-> <<>>, issued |-> NoOptions]

\* json.Unmarshal of a stored document into a Thread: the "votes" key, if
\* any, is ignored; keys the document lacks stay zero.
UnmarshalThread(doc) ==
    [category |-> doc.category, theme |-> doc.theme,
     description |-> doc.description, creator |-> doc.creator,
     options |-> doc.options, win_option |-> doc.win_option,
     status |-> doc.status]

\* QueryThread: [err, thread].
QueryThread(threadID) ==
    IF ledger[threadID] = Nil
    THEN [err |-> "thread does not exist", thread |-> UnmarshalThread(Nil)]
    ELSE [err |-> "", thread |-> UnmarshalThread(ledger[threadID])]

\* ---------------------------------------------------------- identities

GetSubmittingClientIdentity(c) == c.id

GetMSPID(c) == c.org

EnrollmentID(c) == c.enroll

\* getCollectionName: "_implicit_org_" + MSPID of the caller.
getCollectionName(c) ==
    CASE GetMSPID(c) = "Org1MSP" -> "_implicit_org_Org1MSP"
      [] GetMSPID(c) = "Org2MSP" -> "_implicit_org_Org2MSP"

\* contains(map, key)
contains(options, option) == option \in DOMAIN options

\* ---------------------------------------------------------- results

\* What an invocation returns: its error ("" for none) and the world state
\* as the write set it built (its PutState calls) would make it.  Fail is a
\* return before the first PutState.
Fail(msg) == [err |-> msg, ledger |-> ledger, voteState |-> voteState]

Ok(l, v) == [err |-> "", ledger |-> l, voteState |-> v]

\* A return of an error after PutState calls: the write set is not empty.
FailLate(msg, l, v) == [err |-> msg, ledger |-> l, voteState |-> v]

ErrSetEvent == "failed to set event"

\* The last platform call of a handler, SetEvent after the writes: the call
\* succeeds or the platform returns an error, which the handler returns.
SetEvent(res, fails) ==
    IF res.err = "" /\ fails
    THEN FailLate(ErrSetEvent, res.ledger, res.voteState)
    ELSE res

PanicIndex == "panic: index out of range"

ErrArgs == "not enough arguments"
ErrExists == "failed to create, thread ID already exist"

\* ---------------------------------------------------------- CreateThread

FullArgs(threadID, options) ==
    <<"CreateThread", threadID, "cat", "theme", "desc">> \o options

\* The argument lists CreateThread is invoked with: complete ones and every
\* list too short to hold the five leading arguments.
ArgLists ==
    { FullArgs(t, o) : t \in ThreadIDs, o \in OptionLists }
    \cup { SubSeq(FullArgs(t, <<>>), 1, n) : t \in ThreadIDs, n \in 0..4 }

\* A new thread that starts closed.
NewThreadClosed(c, args) ==
    [category |-> args[3], theme |-> args[4], description |-> args[5],
     creator |-> GetSubmittingClientIdentity(c),
     options |-> [o \in Range(SubSeq(args, 6, Len(args))) |-> <<>>],
     win_option |-> <<>>, status |-> "closed"]

\* A new thread whose creator is the caller's organization.
NewThreadByOrg(c, args) ==
    [category |-> args[3], theme |-> args[4], description |-> args[5],
     creator |-> GetMSPID(c),
     options |-> [o \in Range(SubSeq(args, 6, Len(args))) |-> <<>>],
     win_option |-> <<>>, status |-> "open"]

NewThread(c, args) ==
    [category |-> args[3], theme |-> args[4], description |-> args[5],
     creator |-> GetSubmittingClientIdentity(c),
     options |-> [o \in Range(SubSeq(args, 6, Len(args))) |-> <<>>],
     win_option |-> <<>>, status |-> "open"]

\* CreateThread without the check that the ID is free.
CreateThreadResOverwrite(c, args) ==
    IF Len(args) < 4 THEN Fail(ErrArgs)
    ELSE IF Len(args) < 5 THEN Fail(PanicIndex)
    ELSE Ok([ledger EXCEPT ![args[2]] = MarshalThread(NewThread(c, args))],
            voteState)

CreateThreadRes(c, args) ==
    IF Len(args) < 4 THEN Fail(ErrArgs)
    ELSE IF Len(args) < 5 THEN Fail(PanicIndex)
    ELSE IF ledger[args[2]] # Nil
    THEN Fail(ErrExists)
    ELSE Ok([ledger EXCEPT ![args[2]] = MarshalThread(NewThread(c, args))],
            voteState)

\* A platform that commits the write set of every invocation.
CommitAlways(res) == res

\* The platform commits the write set of an invocation that returned no
\* error and discards the write set of one that returned an error.
Commit(res) == IF res.err = "" THEN res ELSE Fail(res.err)

Apply(res) ==
    /\ ledger' = Commit(res).ledger
    /\ voteState' = Commit(res).voteState

CreateThread(c, args) ==
    /\ variant \in {"flag", "bare"}
    /\ \E fails \in BOOLEAN :
           Apply(SetEvent(CreateThreadRes(c, args), fails))
    /\ UNCHANGED <<variant, nextTx, redeemed, issuedBy>>
    /\ UNCHANGED mvcc

\* ------------------------------------------------------------ vote keys

voteKeyType == "vote"

\* CreateCompositeKey(objectType, attributes): an injective encoding of the
\* object type followed by the attributes, in a key space of its own.
CreateCompositeKey(objectType, attributes) == <<objectType>> \o attributes

\* GetState on a composite key: "" stands for nil.
GetVoteState(key) ==
    IF key \in DOMAIN voteState THEN voteState[key] ELSE ""

PutVoteState(key, bytes) ==
    [k \in DOMAIN voteState \cup {key} |->
        IF k = key THEN bytes ELSE voteState[k]]

\* len(data) of a stored vote value: json true, json false, []byte("vote").
BytesLen(bytes) ==
    CASE bytes = "true" -> 4
      [] bytes = "false" -> 5
      [] bytes = "vote" -> 4
      [] OTHER -> 0

\* ------------------------------------------------- thread.go: CreateVote

ErrQuery == "failed to get thread from public state: thread does not exist"
ErrIssuer == "vote of this thread can only be created by creator of thread"
ErrJoinClosed == "cannot join closed or ended auction"
ErrHasVote == "this user already have vote"

CreateVoteKey(c, threadID, userID, txID) ==
    CreateCompositeKey(voteKeyType,
        <<threadID, txID, getCollectionName(c), userID>>)

\* CreateVote without the check of the caller against the creator.
CreateVoteResAnyIssuer(c, threadID, userID, txID) ==
    LET q == QueryThread(threadID)
        voteKey == CreateVoteKey(c, threadID, userID, txID)
    IN  IF q.err # "" THEN Fail(ErrQuery)
        ELSE IF q.thread.status # "open" THEN Fail(ErrJoinClosed)
        ELSE IF GetVoteState(voteKey) # "" THEN Fail(ErrHasVote)
        ELSE Ok(ledger, PutVoteState(voteKey, "true"))

CreateVoteResAnyStatus(c, threadID, userID, txID) ==
    LET q == QueryThread(threadID)
        voteKey == CreateVoteKey(c, threadID, userID, txID)
    IN  IF q.err # "" THEN Fail(ErrQuery)
        ELSE IF q.thread.creator # GetSubmittingClientIdentity(c)
        THEN Fail(ErrIssuer)
        ELSE IF GetVoteState(voteKey) # "" THEN Fail(ErrHasVote)
        ELSE Ok(ledger, PutVoteState(voteKey, "true"))

CreateVoteRes(c, threadID, userID, txID) ==
    LET q == QueryThread(threadID)
        voteKey == CreateVoteKey(c, threadID, userID, txID)
    IN  IF q.err # "" THEN Fail(ErrQuery)
        ELSE IF q.thread.creator # GetSubmittingClientIdentity(c)
        THEN Fail(ErrIssuer)
        ELSE IF q.thread.status # "open" THEN Fail(ErrJoinClosed)
        ELSE IF GetVoteState(voteKey) # "" THEN Fail(ErrHasVote)
        ELSE Ok(ledger, PutVoteState(voteKey, "true"))

\* The platform hands every invocation a fresh transaction id; an id is
\* spent once the invocation that carried it has written to the ledger.
ApplyTx(res, c, voteKey) ==
    /\ Apply(res)
    /\ nextTx' = IF res.err = "" THEN nextTx + 1 ELSE nextTx
    /\ issuedBy' = IF res.err = ""
                   THEN issuedBy \cup
                            {<<voteKey, GetSubmittingClientIdentity(c)>>}
                   ELSE issuedBy

CreateVote(c, threadID, userID) ==
    /\ variant = "flag"
    /\ nextTx <= MaxTx
    /\ ApplyTx(CreateVoteRes(c, threadID, userID, nextTx), c,
               CreateVoteKey(c, threadID, userID, nextTx))
    /\ UNCHANGED <<variant, redeemed>>
    /\ UNCHANGED mvcc

\* ---------------------------------------------------- thread.go: UseVote

ErrThreadClosed == "cannot join closed or ended thread"
ErrNoVote == "vote does not exist"
ErrVoteUsed == "vote already used"
ErrOption == "failed to use vote: unexpected option"

\* A vote key that ignores the caller's organization.
UseVoteKeyAnyOrg(c, threadID, txID) ==
    CreateCompositeKey(voteKeyType,
        <<threadID, txID, "_implicit_org_Org1MSP", EnrollmentID(c)>>)

UseVoteKey(c, threadID, txID) ==
    CreateCompositeKey(voteKeyType,
        <<threadID, txID, getCollectionName(c), EnrollmentID(c)>>)

\* UseVote without the check of the used flag.
UseVoteResNoUsedCheck(c, threadID, txID, option) ==
    LET q == QueryThread(threadID)
        thread == q.thread
        voteKey == UseVoteKey(c, threadID, txID)
        data == GetVoteState(voteKey)
    IN  IF q.err # "" THEN Fail(ErrQuery)
        ELSE IF thread.status # "open" THEN Fail(ErrThreadClosed)
        ELSE IF data = "" THEN Fail(ErrNoVote)
        ELSE IF ~contains(thread.options, option) THEN Fail(ErrOption)
        ELSE Ok([ledger EXCEPT ![threadID] = MarshalThread(
                     [thread EXCEPT !.options[option] =
                         Append(@, EnrollmentID(c))])],
                PutVoteState(voteKey, "false"))

\* UseVote that records the vote and leaves the token unused.
UseVoteResKeepFlag(c, threadID, txID, option) ==
    LET q == QueryThread(threadID)
        thread == q.thread
        voteKey == UseVoteKey(c, threadID, txID)
        data == GetVoteState(voteKey)
    IN  IF q.err # "" THEN Fail(ErrQuery)
        ELSE IF thread.status # "open" THEN Fail(ErrThreadClosed)
        ELSE IF data = "" THEN Fail(ErrNoVote)
        ELSE IF BytesLen(data) = 5 THEN Fail(ErrVoteUsed)
        ELSE IF ~contains(thread.options, option) THEN Fail(ErrOption)
        ELSE Ok([ledger EXCEPT ![threadID] = MarshalThread(
                     [thread EXCEPT !.options[option] =
                         Append(@, EnrollmentID(c))])],
                voteState)

\* UseVote that looks at the token before it looks at the poll's status.
UseVoteResLateStatus(c, threadID, txID, option) ==
    LET q == QueryThread(threadID)
        thread == q.thread
        voteKey == UseVoteKey(c, threadID, txID)
        data == GetVoteState(voteKey)
    IN  IF q.err # "" THEN Fail(ErrQuery)
        ELSE IF data = "" THEN Fail(ErrNoVote)
        ELSE IF BytesLen(data) = 5 THEN Fail(ErrVoteUsed)
        ELSE IF thread.status # "open" THEN Fail(ErrThreadClosed)
        ELSE IF ~contains(thread.options, option) THEN Fail(ErrOption)
        ELSE Ok([ledger EXCEPT ![threadID] = MarshalThread(
                     [thread EXCEPT !.options[option] =
                         Append(@, EnrollmentID(c))])],
                PutVoteState(voteKey, "false"))

\* UseVote without the check of the option: the append creates the entry.
UseVoteResAnyOption(c, threadID, txID, option) ==
    LET q == QueryThread(threadID)
        thread == q.thread
        voteKey == UseVoteKey(c, threadID, txID)
        data == GetVoteState(voteKey)
        old == IF contains(thread.options, option)
               THEN thread.options[option] ELSE <<>>
    IN  IF q.err # "" THEN Fail(ErrQuery)
        ELSE IF thread.status # "open" THEN Fail(ErrThreadClosed)
        ELSE IF data = "" THEN Fail(ErrNoVote)
        ELSE IF BytesLen(data) = 5 THEN Fail(ErrVoteUsed)
        ELSE Ok([ledger EXCEPT ![threadID] = MarshalThread(
                     [thread EXCEPT !.options =
                         [o \in DOMAIN thread.options \cup {option} |->
                             IF o = option
                             THEN Append(old, EnrollmentID(c))
                             ELSE thread.options[o]]])],
                PutVoteState(voteKey, "false"))

UseVoteRes(c, threadID, txID, option) ==
    LET q == QueryThread(threadID)
        thread == q.thread
        voteKey == UseVoteKey(c, threadID, txID)
        data == GetVoteState(voteKey)
    IN  IF q.err # "" THEN Fail(ErrQuery)
        ELSE IF thread.status # "open" THEN Fail(ErrThreadClosed)
        ELSE IF data = "" THEN Fail(ErrNoVote)
        ELSE IF BytesLen(data) = 5 THEN Fail(ErrVoteUsed)
        ELSE IF ~contains(thread.options, option) THEN Fail(ErrOption)
        ELSE Ok([ledger EXCEPT ![threadID] = MarshalThread(
                     [thread EXCEPT !.options[option] =
                         Append(@, EnrollmentID(c))])],
                PutVoteState(voteKey, "false"))

\* The history of successful casts: which vote key was spent on which option.
Redeem(res, voteKey, option) ==
    redeemed' = IF res.err = "" THEN redeemed \cup {<<voteKey, option>>}
                ELSE redeemed

UseVote(c, threadID, txID, option) ==
    /\ variant = "flag"
    /\ \E fails \in BOOLEAN :
           LET res == SetEvent(UseVoteRes(c, threadID, txID, option), fails)
           IN  /\ Apply(res)
               /\ Redeem(res, UseVoteKey(c, threadID, txID), option)
    /\ UNCHANGED <<variant, nextTx, issuedBy>>
    /\ UNCHANGED mvcc

\* -------------------------------------------------- thread.go: EndThread

ErrEnder == "thread can only be ended by creator"
ErrNotOpen == "cannot close thread that is not open"

\* The orders in which `range thread.Options` can enumerate the map: Go
\* leaves the iteration order of a map unspecified.
Orders(options) ==
    { s \in [1..Cardinality(DOMAIN options) -> DOMAIN options] :
        \A i, j \in DOMAIN s : i # j => s[i] # s[j] }

\* The winner loop: options[order[i]] visited for i = 1, 2, ...
RECURSIVE WinLoop(_, _, _, _, _)
WinLoop(options, order, i, voteAmount, winOptions) ==
    IF i > Len(order) THEN winOptions
    ELSE LET k == order[i]
             v == options[k]
         IN  IF Len(v) > voteAmount
             THEN WinLoop(options, order, i + 1, Len(v), <<k>>)
             ELSE IF Len(v) = voteAmount
             THEN WinLoop(options, order, i + 1, voteAmount,
                          Append(winOptions, k))
             ELSE WinLoop(options, order, i + 1, voteAmount, winOptions)

\* The winner loop with >= in place of >: a tie resets the list.
RECURSIVE WinLoopGE(_, _, _, _, _)
WinLoopGE(options, order, i, voteAmount, winOptions) ==
    IF i > Len(order) THEN winOptions
    ELSE LET k == order[i]
             v == options[k]
         IN  IF Len(v) >= voteAmount
             THEN WinLoopGE(options, order, i + 1, Len(v), <<k>>)
             ELSE WinLoopGE(options, order, i + 1, voteAmount, winOptions)

WinnersGE(options, order) == WinLoopGE(options, order, 1, 0, <<>>)

Winners(options, order) == WinLoop(options, order, 1, 0, <<>>)

\* The orders the winner loop of an invocation can take: the loop is only
\* reached with err = "", the result of the checks before it.
LoopOrders(err, options) == IF err = "" THEN Orders(options) ELSE {<<>>}

\* EndThread without the check that the thread is open.
EndThreadResNoStatus(c, threadID, order) ==
    LET q == QueryThread(threadID)
        thread == q.thread
    IN  IF q.err # "" THEN Fail(ErrQuery)
        ELSE IF thread.creator # GetSubmittingClientIdentity(c)
        THEN Fail(ErrEnder)
        ELSE Ok([ledger EXCEPT ![threadID] = MarshalThread(
                     [thread EXCEPT !.win_option =
                                        Winners(thread.options, order),
                                    !.status = "closed"])],
                voteState)

\* EndThread without the check of the caller against the creator.
EndThreadResAnyCaller(c, threadID, order) ==
    LET q == QueryThread(threadID)
        thread == q.thread
    IN  IF q.err # "" THEN Fail(ErrQuery)
        ELSE IF thread.status # "open" THEN Fail(ErrNotOpen)
        ELSE Ok([ledger EXCEPT ![threadID] = MarshalThread(
                     [thread EXCEPT !.win_option =
                                        Winners(thread.options, order),
                                    !.status = "closed"])],
                voteState)

\* EndThread that records the winners and leaves the status as it is.
EndThreadResKeepsOpen(c, threadID, order) ==
    LET q == QueryThread(threadID)
        thread == q.thread
    IN  IF q.err # "" THEN Fail(ErrQuery)
        ELSE IF thread.creator # GetSubmittingClientIdentity(c)
        THEN Fail(ErrEnder)
        ELSE IF thread.status # "open" THEN Fail(ErrNotOpen)
        ELSE Ok([ledger EXCEPT ![threadID] = MarshalThread(
                     [thread EXCEPT !.win_option =
                                        Winners(thread.options, order)])],
                voteState)

EndThreadRes(c, threadID, order) ==
    LET q == QueryThread(threadID)
        thread == q.thread
    IN  IF q.err # "" THEN Fail(ErrQuery)
        ELSE IF thread.creator # GetSubmittingClientIdentity(c)
        THEN Fail(ErrEnder)
        ELSE IF thread.status # "open" THEN Fail(ErrNotOpen)
        ELSE Ok([ledger EXCEPT ![threadID] = MarshalThread(
                     [thread EXCEPT !.win_option =
                                        Winners(thread.options, order),
                                    !.status = "closed"])],
                voteState)

EndThread(c, threadID) ==
    /\ variant = "flag"
    /\ \E order \in LoopOrders(EndThreadRes(c, threadID, <<>>).err,
                               QueryThread(threadID).thread.options) :
           \E fails \in BOOLEAN :
               Apply(SetEvent(EndThreadRes(c, threadID, order), fails))
    /\ UNCHANGED <<variant, nextTx, redeemed, issuedBy>>
    /\ UNCHANGED mvcc

\* ------------------------------------- IssuedVotes generation (indexed)

\* json.Marshal of an IssuedVotes: only a "votes" key, holding a map.
MarshalIssuedVotes(votes) ==
    [Nil EXCEPT !.shape = "IssuedVotes", !.issued = votes]

\* json.Unmarshal of the document at a votes key into an IssuedVotes:
\* nil bytes and a "votes" key holding an array are errors; a document
\* without "votes" key leaves the map nil.
UnmarshalIssuedVotes(doc) ==
    CASE doc.shape = "IssuedVotes" ->
             [err |-> "", nilmap |-> FALSE, votes |-> doc.issued]
      [] doc.shape = "Thread" ->
             [err |-> "", nilmap |-> TRUE, votes |-> NoOptions]
      [] OTHER ->
             [err |-> "json: cannot unmarshal", nilmap |-> TRUE,
              votes |-> NoOptions]

PanicNilMap == "panic: assignment to entry in nil map"

SetIssued(votes, txID, used) ==
    [k \in DOMAIN votes \cup {txID} |-> IF k = txID THEN used ELSE votes[k]]

CreateThreadIVRes(c, args) ==
    IF Len(args) < 4 THEN Fail(ErrArgs)
    ELSE IF Len(args) < 5 THEN Fail(PanicIndex)
    ELSE IF ledger[args[2]] # Nil
    THEN Fail(ErrExists)
    ELSE Ok([ledger EXCEPT
                 ![args[2]] = MarshalThread(NewThread(c, args)),
                 ![VotesKey(args[2])] = MarshalIssuedVotes(NoOptions)],
            voteState)

CreateThreadIV(c, args) ==
    /\ variant = "indexed"
    /\ \E fails \in BOOLEAN :
           Apply(SetEvent(CreateThreadIVRes(c, args), fails))
    /\ UNCHANGED <<variant, nextTx, redeemed, issuedBy>>
    /\ UNCHANGED mvcc

CreateVoteIVRes(c, threadID, userID, txID) ==
    LET q == QueryThread(threadID)
        voteKey == CreateVoteKey(c, threadID, userID, txID)
        votesKey == VotesKey(threadID)
        iv == UnmarshalIssuedVotes(ledger[votesKey])
    IN  IF q.err # "" THEN Fail(ErrQuery)
        ELSE IF q.thread.creator # GetSubmittingClientIdentity(c)
        THEN Fail(ErrIssuer)
        ELSE IF iv.err # ""
        THEN FailLate(iv.err, ledger, PutVoteState(voteKey, "vote"))
        ELSE IF iv.nilmap
        THEN FailLate(PanicNilMap, ledger, PutVoteState(voteKey, "vote"))
        ELSE Ok([ledger EXCEPT ![votesKey] =
                     MarshalIssuedVotes(SetIssued(iv.votes, txID, FALSE))],
                PutVoteState(voteKey, "vote"))

CreateVoteIV(c, threadID, userID) ==
    /\ variant = "indexed"
    /\ nextTx <= MaxTx
    /\ ApplyTx(CreateVoteIVRes(c, threadID, userID, nextTx), c,
               CreateVoteKey(c, threadID, userID, nextTx))
    /\ UNCHANGED <<variant, redeemed>>
    /\ UNCHANGED mvcc

ErrNoIssued == "this vote does no exist"
ErrIssuedUsed == "this vote already used"

UseVoteIVRes(c, threadID, txID, option) ==
    LET q == QueryThread(threadID)
        thread == q.thread
        votesKey == VotesKey(threadID)
        iv == UnmarshalIssuedVotes(ledger[votesKey])
        voteKey == UseVoteKey(c, threadID, txID)
    IN  IF q.err # "" THEN Fail(ErrQuery)
        ELSE IF thread.status # "open" THEN Fail(ErrJoinClosed)
        ELSE IF iv.err # "" THEN Fail(iv.err)
        ELSE IF txID \notin DOMAIN iv.votes THEN Fail(ErrNoIssued)
        ELSE IF iv.votes[txID] THEN Fail(ErrIssuedUsed)
        ELSE IF GetVoteState(voteKey) = "" THEN Fail(ErrNoVote)
        ELSE IF ~contains(thread.options, option) THEN Fail(ErrOption)
        ELSE Ok([ledger EXCEPT
                     ![threadID] = MarshalThread(
                         [thread EXCEPT !.options[option] =
                             Append(@, EnrollmentID(c))]),
                     ![votesKey] = MarshalIssuedVotes(
                         SetIssued(iv.votes, txID, TRUE))],
                voteState)

UseVoteIV(c, threadID, txID, option) ==
    /\ variant = "indexed"
    /\ \E fails \in BOOLEAN :
           LET res == SetEvent(UseVoteIVRes(c, threadID, txID, option), fails)
           IN  /\ Apply(res)
               /\ Redeem(res, UseVoteKey(c, threadID, txID), option)
    /\ UNCHANGED <<variant, nextTx, issuedBy>>
    /\ UNCHANGED mvcc

EndThreadIVRes(c, threadID, order) ==
    LET q == QueryThread(threadID)
        thread == q.thread
    IN  IF q.err # "" THEN Fail(ErrQuery)
        ELSE IF thread.creator # GetSubmittingClientIdentity(c)
        THEN Fail(ErrEnder)
        ELSE IF thread.status # "open" THEN Fail(ErrNotOpen)
        ELSE Ok([ledger EXCEPT ![threadID] = MarshalThread(
                     [thread EXCEPT !.win_option =
                                        Winners(thread.options, order),
                                    !.status = "ended"])],
                voteState)

EndThreadIV(c, threadID) ==
    /\ variant = "indexed"
    /\ \E order \in LoopOrders(EndThreadIVRes(c, threadID, <<>>).err,
                               QueryThread(threadID).thread.options) :
           \E fails \in BOOLEAN :
               Apply(SetEvent(EndThreadIVRes(c, threadID, order), fails))
    /\ UNCHANGED <<variant, nextTx, redeemed, issuedBy>>
    /\ UNCHANGED mvcc

\* ------------------------------------------- anonymous polls (current)

\* json.Marshal of an AnonThread: a Thread plus "votes", the commitments.
MarshalAnonThread(th) ==
    [shape |-> "AnonThread", category |-> th.category, theme |-> th.theme,
     description |-> th.description, creator |-> th.creator,
     options |-> th.options, win_option |-> th.win_option,
     status |-> th.status, votes |-> th.votes, issued |-> NoOptions]

UnmarshalAnonThread(doc) ==
    [category |-> doc.category, theme |-> doc.theme,
     description |-> doc.description, creator |-> doc.creator,
     options |-> doc.options, win_option |-> doc.win_option,
     status |-> doc.status, votes |-> doc.votes]

\* QueryAnonThread: [err, thread].  A "votes" key that holds a map cannot
\* be unmarshalled into []string.
QueryAnonThread(threadID) ==
    IF ledger[threadID] = Nil
    THEN [err |-> "thread does not exist",
          thread |-> UnmarshalAnonThread(Nil)]
    ELSE IF ledger[threadID].shape = "IssuedVotes"
    THEN [err |-> "json: cannot unmarshal",
          thread |-> UnmarshalAnonThread(Nil)]
    ELSE [err |-> "", thread |-> UnmarshalAnonThread(ledger[threadID])]

NewAnonThread(c, args) ==
    [category |-> args[3], theme |-> args[4], description |-> args[5],
     creator |-> GetSubmittingClientIdentity(c), votes |-> <<>>,
     options |-> [o \in Range(SubSeq(args, 6, Len(args))) |-> <<>>],
     win_option |-> <<>>, status |-> "open"]

CreateAnonThreadRes(c, args) ==
    IF Len(args) < 4 THEN Fail(ErrArgs)
    ELSE IF Len(args) < 5 THEN Fail(PanicIndex)
    ELSE IF ledger[args[2]] # Nil
    THEN Fail(ErrExists)
    ELSE Ok([ledger EXCEPT
                 ![args[2]] = MarshalAnonThread(NewAnonThread(c, args))],
            voteState)

CreateAnonThread(c, args) ==
    /\ variant \in {"flag", "bare"}
    /\ \E fails \in BOOLEAN :
           Apply(SetEvent(CreateAnonThreadRes(c, args), fails))
    /\ UNCHANGED <<variant, nextTx, redeemed, issuedBy>>
    /\ UNCHANGED mvcc

\* The secrets voters pick.
Secrets == {"s1", "s2"}

\* The bytes of an AnonVote in JSON.  layout "compact" is the text
\* json.Marshal produces for the struct; any other layout (whitespace,
\* another key order) is a different text with the same fields.
AnonVoteJSON(threadID, txID, option, key, layout) ==
    [thread_id |-> threadID, tx_id |-> txID, option |-> option,
     private_key |-> key, layout |-> layout]

\* json.Marshal(anonVote)
MarshalAnonVote(threadID, txID, option, key) ==
    AnonVoteJSON(threadID, txID, option, key, "compact")

\* base64(sha256(bytes)): one-way, taken as injective.
Sha256(bytes) == [sha256 |-> bytes]

\* transientMap: [has, valid, bytes], the entry "option" of the transient
\* map: whether it is there, whether it parses, and its bytes.
NoTransient ==
    [has |-> FALSE, valid |-> FALSE,
     bytes |-> AnonVoteJSON("", 0, "", "", "")]

BadTransient ==
    [has |-> TRUE, valid |-> FALSE,
     bytes |-> AnonVoteJSON("", 0, "", "", "")]

\* The payloads voters send: compact ones with every secret, and other
\* layouts with the first secret.
VotePayloads ==
    { AnonVoteJSON(t, tx, o, k, "compact") :
        t \in ThreadIDs, tx \in {1, 2}, o \in OptionLabels, k \in Secrets }
    \cup { AnonVoteJSON(t, tx, o, "s1", "pretty") :
        t \in ThreadIDs, tx \in {1, 2}, o \in OptionLabels }

VoteTransients ==
    {NoTransient, BadTransient} \cup
    { [has |-> TRUE, valid |-> TRUE, bytes |-> b] : b \in VotePayloads }

ErrNoTransient == "option key not found in the transient map"
ErrBadTransient == "error unmarshal vote data transient"

UseAnonVoteKey(c, tr) ==
    CreateCompositeKey(voteKeyType,
        <<tr.bytes.thread_id, tr.bytes.tx_id, getCollectionName(c),
          EnrollmentID(c)>>)

UseAnonVoteResKeepFlag(c, tr) ==
    LET vote == tr.bytes
        q == QueryAnonThread(vote.thread_id)
        tread == q.thread
        voteKey == UseAnonVoteKey(c, tr)
        data == GetVoteState(voteKey)
    IN  IF ~tr.has THEN Fail(ErrNoTransient)
        ELSE IF ~tr.valid THEN Fail(ErrBadTransient)
        ELSE IF q.err # "" THEN Fail(ErrQuery)
        ELSE IF tread.status # "open" THEN Fail(ErrJoinClosed)
        ELSE IF data = "" THEN Fail(ErrNoVote)
        ELSE IF BytesLen(data) = 5 THEN Fail(ErrVoteUsed)
        ELSE IF ~contains(tread.options, vote.option) THEN Fail(ErrOption)
        ELSE Ok([ledger EXCEPT ![vote.thread_id] = MarshalAnonThread(
                     [tread EXCEPT !.votes = Append(@, Sha256(tr.bytes))])],
                voteState)

UseAnonVoteRes(c, tr) ==
    LET vote == tr.bytes
        q == QueryAnonThread(vote.thread_id)
        tread == q.thread
        voteKey == UseAnonVoteKey(c, tr)
        data == GetVoteState(voteKey)
    IN  IF ~tr.has THEN Fail(ErrNoTransient)
        ELSE IF ~tr.valid THEN Fail(ErrBadTransient)
        ELSE IF q.err # "" THEN Fail(ErrQuery)
        ELSE IF tread.status # "open" THEN Fail(ErrJoinClosed)
        ELSE IF data = "" THEN Fail(ErrNoVote)
        ELSE IF BytesLen(data) = 5 THEN Fail(ErrVoteUsed)
        ELSE IF ~contains(tread.options, vote.option) THEN Fail(ErrOption)
        ELSE Ok([ledger EXCEPT ![vote.thread_id] = MarshalAnonThread(
                     [tread EXCEPT !.votes = Append(@, Sha256(tr.bytes))])],
                PutVoteState(voteKey, "false"))

UseAnonVote(c, tr) ==
    /\ variant = "flag"
    /\ \E fails \in BOOLEAN : Apply(SetEvent(UseAnonVoteRes(c, tr), fails))
    /\ UNCHANGED <<variant, nextTx, redeemed, issuedBy>>
    /\ UNCHANGED mvcc

\* The reveal data the creator supplies: keys and vote transaction ids.
\* Complete lists, lists that repeat an entry, and lists that lack one.
RevealLists ==
    { [keys |-> <<"s1", "s2">>, vote_txs |-> <<1, 2>>],
      [keys |-> <<"s1", "s1">>, vote_txs |-> <<1, 2>>],
      [keys |-> <<"s1">>,       vote_txs |-> <<1, 1>>],
      [keys |-> <<>>,           vote_txs |-> <<>>] }

EndTransients ==
    {NoTransient, BadTransient} \cup
    { [has |-> TRUE, valid |-> TRUE,
       bytes |-> [thread_id |-> t, keys |-> r.keys,
                  vote_txs |-> r.vote_txs]] :
        t \in ThreadIDs, r \in RevealLists }

ErrNoEndTransient == "bid key not found in the transient map"

\* A reveal that counts every distinct (commitment, transaction id, secret)
\* once, however often the lists name it.
MatchesDistinct(thread, endData, option) ==
    { <<thread.votes[m[1]], endData.vote_txs[m[2]], endData.keys[m[3]]>> :
        m \in { n \in (1..Len(thread.votes)) \X (1..Len(endData.vote_txs))
                      \X (1..Len(endData.keys)) :
                  Sha256(MarshalAnonVote(endData.thread_id,
                                         endData.vote_txs[n[2]], option,
                                         endData.keys[n[3]]))
                      = thread.votes[n[1]] } }

\* The passes of the four nested loops in which the recomputed hash equals
\* the stored one, for one option: (vote, tx, key) positions.
Matches(thread, endData, option) ==
    { m \in (1..Len(thread.votes)) \X (1..Len(endData.vote_txs))
            \X (1..Len(endData.keys)) :
        Sha256(MarshalAnonVote(endData.thread_id, endData.vote_txs[m[2]],
                               option, endData.keys[m[3]]))
            = thread.votes[m[1]] }

\* thread.Options[option] = append(thread.Options[option], "vote"), once
\* per matching pass.
Reveal(thread, endData) ==
    [o \in DOMAIN thread.options |->
        thread.options[o] \o
            [n \in 1..Cardinality(Matches(thread, endData, o)) |-> "vote"]]

\* A close that refuses reveal data which leave a stored commitment
\* without a match.
EndAnonThreadResStrict(c, tr, order) ==
    LET endData == tr.bytes
        q == QueryAnonThread(endData.thread_id)
        thread == q.thread
        options == Reveal(thread, endData)
    IN  IF ~tr.has THEN Fail(ErrNoEndTransient)
        ELSE IF ~tr.valid THEN Fail(ErrBadTransient)
        ELSE IF q.err # "" THEN Fail(ErrQuery)
        ELSE IF thread.creator # GetSubmittingClientIdentity(c)
        THEN Fail(ErrEnder)
        ELSE IF thread.status # "open" THEN Fail(ErrNotOpen)
        ELSE IF \E v \in 1..Len(thread.votes) :
                    \A o \in DOMAIN thread.options :
                        \A m \in Matches(thread, endData, o) : m[1] # v
        THEN Fail("unrevealed commitment")
        ELSE Ok([ledger EXCEPT ![endData.thread_id] = MarshalAnonThread(
                     [thread EXCEPT !.options = options,
                                    !.win_option = Winners(options, order),
                                    !.status = "closed"])],
                voteState)

EndAnonThreadRes(c, tr, order) ==
    LET endData == tr.bytes
        q == QueryAnonThread(endData.thread_id)
        thread == q.thread
        options == Reveal(thread, endData)
    IN  IF ~tr.has THEN Fail(ErrNoEndTransient)
        ELSE IF ~tr.valid THEN Fail(ErrBadTransient)
        ELSE IF q.err # "" THEN Fail(ErrQuery)
        ELSE IF thread.creator # GetSubmittingClientIdentity(c)
        THEN Fail(ErrEnder)
        ELSE IF thread.status # "open" THEN Fail(ErrNotOpen)
        ELSE Ok([ledger EXCEPT ![endData.thread_id] = MarshalAnonThread(
                     [thread EXCEPT !.options = options,
                                    !.win_option = Winners(options, order),
                                    !.status = "closed"])],
                voteState)

\* The thread the reveal data names, zero when the transient is unusable.
EndAnonOptions(tr) ==
    IF tr.has /\ tr.valid
    THEN QueryAnonThread(tr.bytes.thread_id).thread.options
    ELSE NoOptions

EndAnonThread(c, tr) ==
    /\ variant = "flag"
    /\ \E order \in LoopOrders(EndAnonThreadRes(c, tr, <<>>).err,
                               EndAnonOptions(tr)) :
           \E fails \in BOOLEAN :
               Apply(SetEvent(EndAnonThreadRes(c, tr, order), fails))
    /\ UNCHANGED <<variant, nextTx, redeemed, issuedBy>>
    /\ UNCHANGED mvcc

\* ----------------------------------------- earliest generation (bare)

\* The vote key of the earliest generation: no user in the key.
BareVoteKey(c, threadID, txID) ==
    CreateCompositeKey(voteKeyType, <<threadID, txID, getCollectionName(c)>>)

\* CreateThread of this generation is the CreateThread of thread.go.

CreateVoteBareRes(c, threadID, txID) ==
    LET q == QueryThread(threadID)
        voteKey == BareVoteKey(c, threadID, txID)
    IN  IF q.err # "" THEN Fail(ErrQuery)
        ELSE IF q.thread.creator # GetSubmittingClientIdentity(c)
        THEN Fail(ErrIssuer)
        ELSE Ok(ledger, PutVoteState(voteKey, "vote"))

CreateVoteBare(c, threadID) ==
    /\ variant = "bare"
    /\ nextTx <= MaxTx
    /\ ApplyTx(CreateVoteBareRes(c, threadID, nextTx), c,
               BareVoteKey(c, threadID, nextTx))
    /\ UNCHANGED <<variant, redeemed>>
    /\ UNCHANGED mvcc

\* The votes and commitments recorded so far, over all polls.
Casts ==
    LET n[ks \in SUBSET ThreadIDs] ==
            IF ks = {} THEN 0
            ELSE LET t == CHOOSE x \in ks : TRUE
                 IN  SumLen(ledger[t].options, DOMAIN ledger[t].options)
                         + Len(ledger[t].votes) + n[ks \ {t}]
    IN  n[ThreadIDs]

UseVoteBareRes(c, threadID, txID, option) ==
    LET q == QueryThread(threadID)
        tread == q.thread
        voteKey == BareVoteKey(c, threadID, txID)
        data == GetVoteState(voteKey)
    IN  IF q.err # "" THEN Fail(ErrQuery)
        ELSE IF tread.status # "open" THEN Fail(ErrJoinClosed)
        ELSE IF data = "" THEN Fail(ErrNoVote)
        ELSE IF ~contains(tread.options, option) THEN Fail(ErrOption)
        ELSE Ok([ledger EXCEPT ![threadID] = MarshalThread(
                     [tread EXCEPT !.options[option] =
                         Append(@, EnrollmentID(c))])],
                voteState)

UseVoteBare(c, threadID, txID, option) ==
    /\ variant = "bare"
    /\ Casts < MaxCasts
    /\ \E fails \in BOOLEAN :
           LET res == SetEvent(UseVoteBareRes(c, threadID, txID, option), fails)
           IN  /\ Apply(res)
               /\ Redeem(res, BareVoteKey(c, threadID, txID), option)
    /\ UNCHANGED <<variant, nextTx, issuedBy>>
    /\ UNCHANGED mvcc

EndThreadBareRes(c, threadID, order) ==
    LET q == QueryThread(threadID)
        thread == q.thread
    IN  IF q.err # "" THEN Fail(ErrQuery)
        ELSE IF thread.creator # GetSubmittingClientIdentity(c)
        THEN Fail(ErrEnder)
        ELSE IF thread.status # "open" THEN Fail(ErrNotOpen)
        ELSE Ok([ledger EXCEPT ![threadID] = MarshalThread(
                     [thread EXCEPT !.win_option =
                                        Winners(thread.options, order),
                                    !.status = "ended"])],
                voteState)

EndThreadBare(c, threadID) ==
    /\ variant = "bare"
    /\ \E order \in LoopOrders(EndThreadBareRes(c, threadID, <<>>).err,
                               QueryThread(threadID).thread.options) :
           \E fails \in BOOLEAN :
               Apply(SetEvent(EndThreadBareRes(c, threadID, order), fails))
    /\ UNCHANGED <<variant, nextTx, redeemed, issuedBy>>
    /\ UNCHANGED mvcc

\* The anonymous contract of the earliest generation.  Its CreateAnonThread
\* is the current CreateAnonThread.

UseAnonVoteOldKey(c, tr) ==
    BareVoteKey(c, tr.bytes.thread_id, tr.bytes.tx_id)

UseAnonVoteOldRes(c, tr) ==
    LET vote == tr.bytes
        q == QueryAnonThread(vote.thread_id)
        tread == q.thread
        voteKey == UseAnonVoteOldKey(c, tr)
        data == GetVoteState(voteKey)
    IN  IF ~tr.has THEN Fail(ErrNoEndTransient)
        ELSE IF ~tr.valid THEN Fail(ErrBadTransient)
        ELSE IF q.err # "" THEN Fail(ErrQuery)
        ELSE IF tread.status # "open" THEN Fail(ErrJoinClosed)
        ELSE IF data = "" THEN Fail(ErrNoVote)
        ELSE IF ~contains(tread.options, vote.option) THEN Fail(ErrOption)
        ELSE Ok([ledger EXCEPT ![vote.thread_id] = MarshalAnonThread(
                     [tread EXCEPT !.votes = Append(@, Sha256(tr.bytes))])],
                voteState)

UseAnonVoteOld(c, tr) ==
    /\ variant = "bare"
    /\ Casts < MaxCasts
    /\ \E fails \in BOOLEAN :
           Apply(SetEvent(UseAnonVoteOldRes(c, tr), fails))
    /\ UNCHANGED <<variant, nextTx, redeemed, issuedBy>>
    /\ UNCHANGED mvcc

EndAnonThreadOldRes(c, tr, order) ==
    LET endData == tr.bytes
        q == QueryAnonThread(endData.thread_id)
        thread == q.thread
        options == Reveal(thread, endData)
    IN  IF ~tr.has THEN Fail(ErrNoEndTransient)
        ELSE IF ~tr.valid THEN Fail(ErrBadTransient)
        ELSE IF q.err # "" THEN Fail(ErrQuery)
        ELSE IF thread.creator # GetSubmittingClientIdentity(c)
        THEN Fail(ErrEnder)
        ELSE IF thread.status # "open" THEN Fail(ErrNotOpen)
        ELSE Ok([ledger EXCEPT ![endData.thread_id] = MarshalAnonThread(
                     [thread EXCEPT !.options = options,
                                    !.win_option = Winners(options, order),
                                    !.status = "ended"])],
                voteState)

EndAnonThreadOld(c, tr) ==
    /\ variant = "bare"
    /\ \E order \in LoopOrders(EndAnonThreadOldRes(c, tr, <<>>).err,
                               EndAnonOptions(tr)) :
           \E fails \in BOOLEAN :
               Apply(SetEvent(EndAnonThreadOldRes(c, tr, order), fails))
    /\ UNCHANGED <<variant, nextTx, redeemed, issuedBy>>
    /\ UNCHANGED mvcc

\* ------------------------------------ endorsement, ordering, validation

\* The number of endorsed transactions in flight at one time.
MaxPending == 2

NoVersions == [ledger |-> [k \in LedgerKeys |-> 0],
               voteState |-> [k \in {} |-> 0]]

\* The version of a composite key; a key never written has version 0.
VoteVersion(key) ==
    IF key \in DOMAIN version.voteState THEN version.voteState[key] ELSE 0

\* The keys an invocation hands to GetState and to PutState.
Keys(ledgerKeys, voteKeys) == [ledger |-> ledgerKeys, voteState |-> voteKeys]

CreateThreadReads(args) == Keys({args[2]}, {})
CreateThreadWrites(args) == Keys({args[2]}, {})

CreateVoteReads(c, threadID, userID, txID) ==
    Keys({threadID}, {CreateVoteKey(c, threadID, userID, txID)})
CreateVoteWrites(c, threadID, userID, txID) ==
    Keys({}, {CreateVoteKey(c, threadID, userID, txID)})

UseVoteReadsTokenOnly(c, threadID, txID) ==
    Keys({}, {UseVoteKey(c, threadID, txID)})

UseVoteReads(c, threadID, txID) ==
    Keys({threadID}, {UseVoteKey(c, threadID, txID)})
UseVoteWrites(c, threadID, txID) ==
    Keys({threadID}, {UseVoteKey(c, threadID, txID)})

EndThreadReads(threadID) == Keys({threadID}, {})
EndThreadWrites(threadID) == Keys({threadID}, {})

\* The transaction an endorsement of a successful invocation yields: the
\* keys read with the versions they had in the snapshot, the keys written
\* with their new values, and what the invocation did (for the histories).
Tx(res, reads, writes, cast, issue) ==
    [reads  |-> [ledger |-> {<<k, version.ledger[k]>> : k \in reads.ledger},
                 voteState |->
                     {<<k, VoteVersion(k)>> : k \in reads.voteState}],
     writes |-> [ledger |-> {<<k, res.ledger[k]>> : k \in writes.ledger},
                 voteState |->
                     {<<k, res.voteState[k]>> : k \in writes.voteState}],
     cast |-> cast,
     issue |-> issue]

\* An invocation that returns an error is reported to its caller and no
\* transaction is submitted for it.
Submit(res, reads, writes, cast, issue) ==
    /\ res.err = ""
    /\ Len(pending) < MaxPending
    /\ pending' = Append(pending, Tx(res, reads, writes, cast, issue))
    /\ UNCHANGED <<variant, ledger, voteState, redeemed, issuedBy, version>>

SubmitCreateThread(c, args) ==
    /\ variant = "flag"
    /\ Submit(CreateThreadRes(c, args), CreateThreadReads(args),
              CreateThreadWrites(args), {}, {})
    /\ UNCHANGED nextTx

SubmitCreateVote(c, threadID, userID) ==
    /\ variant = "flag"
    /\ nextTx <= MaxTx
    /\ Submit(CreateVoteRes(c, threadID, userID, nextTx),
              CreateVoteReads(c, threadID, userID, nextTx),
              CreateVoteWrites(c, threadID, userID, nextTx),
              {},
              {<<CreateVoteKey(c, threadID, userID, nextTx),
                 GetSubmittingClientIdentity(c)>>})
    /\ nextTx' = nextTx + 1

SubmitUseVote(c, threadID, txID, option) ==
    /\ variant = "flag"
    /\ Submit(UseVoteRes(c, threadID, txID, option),
              UseVoteReads(c, threadID, txID),
              UseVoteWrites(c, threadID, txID),
              {<<UseVoteKey(c, threadID, txID), option>>}, {})
    /\ UNCHANGED nextTx

SubmitEndThread(c, threadID) ==
    /\ variant = "flag"
    /\ \E order \in LoopOrders(EndThreadRes(c, threadID, <<>>).err,
                               QueryThread(threadID).thread.options) :
           Submit(EndThreadRes(c, threadID, order), EndThreadReads(threadID),
                  EndThreadWrites(threadID), {}, {})
    /\ UNCHANGED nextTx

\* Validation: every key the transaction read still has the version read.
Valid(tx) ==
    /\ \A r \in tx.reads.ledger : version.ledger[r[1]] = r[2]
    /\ \A r \in tx.reads.voteState : VoteVersion(r[1]) = r[2]

Written(writes, key) == \E w \in writes : w[1] = key
ValueOf(writes, key) == (CHOOSE w \in writes : w[1] = key)[2]

Remove(seq, i) == SubSeq(seq, 1, i - 1) \o SubSeq(seq, i + 1, Len(seq))

\* The ordering service delivers a transaction in flight; a valid one has
\* its write set applied and the versions of the written keys advanced, an
\* invalid one is dropped and changes nothing.
CommitTx(i) ==
    /\ i \in 1..Len(pending)
    /\ pending' = Remove(pending, i)
    /\ LET tx == pending[i]
           voteKeys == DOMAIN voteState \cup
                           {w[1] : w \in tx.writes.voteState}
       IN  IF Valid(tx)
           THEN /\ ledger' = [k \in LedgerKeys |->
                                 IF Written(tx.writes.ledger, k)
                                 THEN ValueOf(tx.writes.ledger, k)
                                 ELSE ledger[k]]
                /\ voteState' = [k \in voteKeys |->
                                    IF Written(tx.writes.voteState, k)
                                    THEN ValueOf(tx.writes.voteState, k)
                                    ELSE voteState[k]]
                /\ version' =
                       [ledger |-> [k \in LedgerKeys |->
                                       IF Written(tx.writes.ledger, k)
                                       THEN version.ledger[k] + 1
                                       ELSE version.ledger[k]],
                        voteState |-> [k \in voteKeys |->
                                          IF Written(tx.writes.voteState, k)
                                          THEN VoteVersion(k) + 1
                                          ELSE VoteVersion(k)]]
                /\ redeemed' = redeemed \cup tx.cast
                /\ issuedBy' = issuedBy \cup tx.issue
           ELSE UNCHANGED <<ledger, voteState, version, redeemed, issuedBy>>
    /\ UNCHANGED <<variant, nextTx>>

\* ------------------------------------------------------------------ spec

Init ==
    /\ variant \in Variants
    /\ ledger = [k \in LedgerKeys |-> Nil]
    /\ voteState = [k \in {} |-> ""]
    /\ nextTx = 1
    /\ redeemed = {}
    /\ issuedBy = {}
    /\ pending = <<>>
    /\ version = NoVersions

\* The public-poll transactions of both generations.
NextPublic ==
    \/ \E c \in Clients, args \in ArgLists : CreateThread(c, args)
    \/ \E c \in Clients, t \in ThreadIDs, u \in UserIDs : CreateVote(c, t, u)
    \/ \E c \in Clients, t \in ThreadIDs, tx \in TxIDs, o \in OptionLabels :
           UseVote(c, t, tx, o)
    \/ \E c \in Clients, t \in ThreadIDs : EndThread(c, t)
    \/ \E c \in Clients, args \in ArgLists : CreateThreadIV(c, args)
    \/ \E c \in Clients, t \in ThreadIDs, u \in UserIDs :
           CreateVoteIV(c, t, u)
    \/ \E c \in Clients, t \in ThreadIDs, tx \in TxIDs, o \in OptionLabels :
           UseVoteIV(c, t, tx, o)
    \/ \E c \in Clients, t \in ThreadIDs : EndThreadIV(c, t)

\* The transactions on anonymous polls.
NextAnon ==
    \/ \E c \in Clients, args \in ArgLists : CreateAnonThread(c, args)
    \/ \E c \in Clients, tr \in VoteTransients : UseAnonVote(c, tr)
    \/ \E c \in Clients, tr \in EndTransients : EndAnonThread(c, tr)

Next == NextPublic \/ NextAnon

Spec == Init /\ [][Next]_vars

SpecPublic == Init /\ [][NextPublic]_vars

\* A deployment of the earliest generation.
InitBare ==
    /\ variant = "bare"
    /\ ledger = [k \in LedgerKeys |-> Nil]
    /\ voteState = [k \in {} |-> ""]
    /\ nextTx = 1
    /\ redeemed = {}
    /\ issuedBy = {}
    /\ pending = <<>>
    /\ version = NoVersions

NextBare ==
    \/ \E c \in Clients, args \in ArgLists : CreateThread(c, args)
    \/ \E c \in Clients, t \in ThreadIDs : CreateVoteBare(c, t)
    \/ \E c \in Clients, t \in ThreadIDs, tx \in TxIDs, o \in OptionLabels :
           UseVoteBare(c, t, tx, o)
    \/ \E c \in Clients, t \in ThreadIDs : EndThreadBare(c, t)
    \/ \E c \in Clients, args \in ArgLists : CreateAnonThread(c, args)
    \/ \E c \in Clients, tr \in VoteTransients : UseAnonVoteOld(c, tr)
    \/ \E c \in Clients, tr \in EndTransients : EndAnonThreadOld(c, tr)

SpecBare == InitBare /\ [][NextBare]_vars

\* A deployment of thread.go and the anonymous polls that go with it.
InitFlag ==
    /\ variant = "flag"
    /\ ledger = [k \in LedgerKeys |-> Nil]
    /\ voteState = [k \in {} |-> ""]
    /\ nextTx = 1
    /\ redeemed = {}
    /\ issuedBy = {}
    /\ pending = <<>>
    /\ version = NoVersions

\* The invocations of thread.go endorsed against the state at the time and
\* committed later, in any order.
NextMVCC ==
    \/ \E c \in Clients, args \in ArgLists : SubmitCreateThread(c, args)
    \/ \E c \in Clients, t \in ThreadIDs, u \in UserIDs :
           SubmitCreateVote(c, t, u)
    \/ \E c \in Clients, t \in ThreadIDs, tx \in TxIDs, o \in OptionLabels :
           SubmitUseVote(c, t, tx, o)
    \/ \E c \in Clients, t \in ThreadIDs : SubmitEndThread(c, t)
    \/ \E i \in 1..MaxPending : CommitTx(i)

SpecMVCC == InitFlag /\ [][NextMVCC]_vars

\* The creator of an open poll submits a close; after a rejection the
\* creator submits again.
CreatorCloses ==
    \E c \in Clients, t \in ThreadIDs :
        /\ ledger[t].creator = GetSubmittingClientIdentity(c)
        /\ SubmitEndThread(c, t)

\* The ordering service delivers the oldest transaction in flight, and the
\* creator of a poll keeps submitting its close.
SpecMVCCFair ==
    SpecMVCC /\ WF_vars(CommitTx(1)) /\ SF_vars(CreatorCloses)

\* A deployment of the IssuedVotes generation with the poll IDs "P1" and
\* "P1_votes".
InitIndexed ==
    /\ variant = "indexed"
    /\ ledger = [k \in LedgerKeys |-> Nil]
    /\ voteState = [k \in {} |-> ""]
    /\ nextTx = 1
    /\ redeemed = {}
    /\ issuedBy = {}
    /\ pending = <<>>
    /\ version = NoVersions

IndexArgLists == { FullArgs(t, o) : t \in IndexThreadIDs, o \in OptionLists }

NextIndexKeys ==
    \/ \E c \in Clients, args \in IndexArgLists : CreateThreadIV(c, args)
    \/ \E c \in Clients, t \in IndexThreadIDs, u \in UserIDs :
           CreateVoteIV(c, t, u)
    \/ \E c \in Clients, t \in IndexThreadIDs, tx \in TxIDs,
          o \in OptionLabels : UseVoteIV(c, t, tx, o)
    \/ \E c \in Clients, t \in IndexThreadIDs : EndThreadIV(c, t)

SpecIndexKeys == InitIndexed /\ [][NextIndexKeys]_vars

\* An anonymous poll before its reveal: creation, issuance and commitment.
NextAnonOpen ==
    \/ \E c \in Clients, args \in ArgLists : CreateAnonThread(c, args)
    \/ \E c \in Clients, t \in ThreadIDs, u \in UserIDs : CreateVote(c, t, u)
    \/ \E c \in Clients, tr \in VoteTransients : UseAnonVote(c, tr)

SpecAnonOpen == InitFlag /\ [][NextAnonOpen]_vars

\* ---------------------------------------------------------------- claims

\* The error kinds of the specification and the messages the code returns.
InvalidState == {ErrThreadClosed, ErrJoinClosed, ErrNotOpen}
TokenAlreadyUsed == {ErrVoteUsed, ErrIssuedUsed}
Unauthorized == {ErrIssuer, ErrEnder}
AlreadyExists == {ErrExists}

\* A result that leaves the world state as it found it.
Untouched(res) == res.ledger = ledger /\ res.voteState = voteState

Exists(threadID) == ledger[threadID] # Nil

\* The deployed generation's cast, issue and close.
CastRes(c, threadID, txID, option) ==
    IF variant = "flag" THEN UseVoteRes(c, threadID, txID, option)
    ELSE UseVoteIVRes(c, threadID, txID, option)

IssueRes(c, threadID, userID, txID) ==
    IF variant = "flag" THEN CreateVoteRes(c, threadID, userID, txID)
    ELSE CreateVoteIVRes(c, threadID, userID, txID)

CloseRes(c, threadID, order) ==
    IF variant = "flag" THEN EndThreadRes(c, threadID, order)
    ELSE EndThreadIVRes(c, threadID, order)

CreateRes(c, args) ==
    IF variant = "flag" THEN CreateThreadRes(c, args)
    ELSE CreateThreadIVRes(c, args)

\* The casts recorded as successful for a vote key.
Spent(voteKey) == \E o \in OptionLabels : <<voteKey, o>> \in redeemed

\* C1 (as stated): once a cast with handle T by voter V on poll P has
\* succeeded, every later cast on P with T by V fails with TokenAlreadyUsed
\* and changes nothing, whatever happened in between.
C1_ReuseFailsAlreadyUsed ==
    \A c \in Clients, t \in ThreadIDs, tx \in TxIDs, o \in OptionLabels :
        Spent(UseVoteKey(c, t, tx)) =>
            /\ CastRes(c, t, tx, o).err \in TokenAlreadyUsed
            /\ Untouched(CastRes(c, t, tx, o))

\* C1 (amended): once a cast with handle T by voter V on poll P has
\* succeeded, every later cast on P with T by V fails and changes nothing:
\* with TokenAlreadyUsed while P is open, with InvalidState once P was
\* closed in between.
C1_ReuseFails ==
    \A c \in Clients, t \in ThreadIDs, tx \in TxIDs, o \in OptionLabels :
        Spent(UseVoteKey(c, t, tx)) =>
            /\ CastRes(c, t, tx, o).err \in
                   (IF ledger[t].status = "open" THEN TokenAlreadyUsed
                    ELSE InvalidState)
            /\ Untouched(CastRes(c, t, tx, o))

\* C1 witness: a token was redeemed, another was issued after it, and the
\* redeemed one is presented again on the still open poll.
C1_Witness ==
    \E c \in Clients, t \in ThreadIDs, tx \in TxIDs, o \in OptionLabels :
        /\ Spent(UseVoteKey(c, t, tx))
        /\ nextTx > tx + 1
        /\ ledger[t].status = "open"
        /\ contains(ledger[t].options, o)
        /\ CastRes(c, t, tx, o).err \in TokenAlreadyUsed

\* The tokens of a poll that are in the used state.
UsedTokens(threadID) ==
    IF variant = "flag"
    THEN {k \in DOMAIN voteState : k[2] = threadID /\ voteState[k] = "false"}
    ELSE {k \in DOMAIN voteState :
            /\ k[2] = threadID
            /\ k[3] \in DOMAIN ledger[VotesKey(threadID)].issued
            /\ ledger[VotesKey(threadID)].issued[k[3]]}

\* C2: for every poll P and option O, the length of P.options[O] is the
\* number of distinct tokens of P redeemed for O, and the number of votes
\* recorded in P is the number of P's tokens in the used state.
C2_TallyMatchesTokens ==
    \A t \in ThreadIDs :
        /\ \A o \in DOMAIN ledger[t].options :
               Len(ledger[t].options[o]) =
                   Cardinality({r \in redeemed : r[1][2] = t /\ r[2] = o})
        /\ SumLen(ledger[t].options, DOMAIN ledger[t].options) =
               Cardinality(UsedTokens(t))

\* C2 witness: two tokens of one poll were redeemed, and the poll is closed.
C2_Witness ==
    \E t \in ThreadIDs :
        /\ Cardinality(UsedTokens(t)) = 2
        /\ ledger[t].status # "open"

\* C3: a cast (UseVote, UseAnonVote) against a poll whose status is not open
\* fails with InvalidState and changes nothing, for every token handle and
\* every option.
C3_CastOnClosedFails ==
    \A c \in Clients, t \in ThreadIDs :
        (Exists(t) /\ ledger[t].status # "open") =>
            /\ \A tx \in TxIDs, o \in OptionLabels :
                   /\ CastRes(c, t, tx, o).err \in InvalidState
                   /\ Untouched(CastRes(c, t, tx, o))
            /\ \A tr \in VoteTransients :
                   (tr.has /\ tr.valid /\ tr.bytes.thread_id = t) =>
                       /\ UseAnonVoteRes(c, tr).err \in InvalidState
                       /\ Untouched(UseAnonVoteRes(c, tr))

\* C3 witness: a closed poll with one unused and one used token, and the
\* holder of the unused token casts a valid option.
C3_Witness ==
    \E c \in Clients, t \in ThreadIDs, tx \in TxIDs, o \in OptionLabels :
        /\ Exists(t) /\ ledger[t].status = "closed"
        /\ contains(ledger[t].options, o)
        /\ GetVoteState(UseVoteKey(c, t, tx)) = "true"
        /\ \E k \in DOMAIN voteState : voteState[k] = "false"
        /\ UseVoteRes(c, t, tx, o).err = ErrThreadClosed
        /\ \E tr \in VoteTransients :
               /\ tr.has /\ tr.valid /\ tr.bytes.thread_id = t
               /\ tr.bytes.tx_id = tx /\ tr.bytes.option = o
               /\ UseAnonVoteRes(c, tr).err = ErrJoinClosed

\* The options whose vote count is the maximum over all options.
MaxOptions(options) ==
    {o \in DOMAIN options :
        \A p \in DOMAIN options : Len(options[p]) <= Len(options[o])}

\* A winner list that names exactly the options of maximal count, once each.
ExactWinners(options, winOptions) ==
    /\ Range(winOptions) = MaxOptions(options)
    /\ Len(winOptions) = Cardinality(MaxOptions(options))

\* C4: after a close, winOptions holds exactly the options whose count is
\* the maximum, each once, whatever the order in which the options are
\* enumerated.
C4_WinnersAreMaxima ==
    \A t \in ThreadIDs :
        /\ (Exists(t) /\ ledger[t].status # "open") =>
               ExactWinners(ledger[t].options, ledger[t].win_option)
        /\ \A order \in Orders(ledger[t].options) :
               ExactWinners(ledger[t].options,
                            Winners(ledger[t].options, order))

\* C4 witness: a closed poll of three options where two options tie for
\* the maximum 1 and the third has no vote.
C4_Witness ==
    \E t \in ThreadIDs :
        /\ Exists(t) /\ ledger[t].status # "open"
        /\ Cardinality(DOMAIN ledger[t].options) = 3
        /\ Cardinality(MaxOptions(ledger[t].options)) = 2
        /\ Len(ledger[t].win_option) = 2

\* The results a close can write, one per order the options can be
\* enumerated in.
CloseOutcomes(c, threadID) ==
    {CloseRes(c, threadID, order) :
        order \in Orders(ledger[threadID].options)}

EndAnonOutcomes(c, tr) ==
    {EndAnonThreadRes(c, tr, order) : order \in Orders(EndAnonOptions(tr))}

\* C5: two executions of a close (EndThread, EndAnonThread) from the same
\* ledger state with the same caller and inputs write the same poll record,
\* winOptions in the same order included.
C5_CloseDeterministic ==
    \A c \in Clients :
        /\ \A t \in ThreadIDs : Cardinality(CloseOutcomes(c, t)) <= 1
        /\ \A tr \in EndTransients : Cardinality(EndAnonOutcomes(c, tr)) <= 1

\* C6: creating a poll (CreateThread, CreateAnonThread) with an ID at which
\* a record exists fails with AlreadyExists and leaves the record as it is,
\* whatever the record's state and kind and whoever calls.
C6_CreateExistingFails ==
    \A c \in Clients, args \in ArgLists :
        (Len(args) >= 5 /\ Exists(args[2])) =>
            /\ CreateRes(c, args).err \in AlreadyExists
            /\ Untouched(CreateRes(c, args))
            /\ CreateAnonThreadRes(c, args).err \in AlreadyExists
            /\ Untouched(CreateAnonThreadRes(c, args))

\* C6 witness: a closed anonymous poll that holds a commitment, and a
\* caller other than its creator creates a poll with options at its ID.
C6_Witness ==
    \E c \in Clients, args \in ArgLists :
        /\ Len(args) > 5 /\ Exists(args[2])
        /\ ledger[args[2]].shape = "AnonThread"
        /\ ledger[args[2]].status = "closed"
        /\ ledger[args[2]].votes # <<>>
        /\ ledger[args[2]].creator # GetSubmittingClientIdentity(c)
        /\ CreateThreadRes(c, args).err = ErrExists
        /\ CreateAnonThreadRes(c, args).err = ErrExists

\* C7: after a successful close of poll P, a second close of P by the
\* creator fails with InvalidState and leaves winOptions, options and
\* status as the first close wrote them.
C7_SecondCloseFails ==
    \A c \in Clients, t \in ThreadIDs :
        (/\ Exists(t) /\ ledger[t].status # "open"
         /\ ledger[t].creator = GetSubmittingClientIdentity(c)) =>
            /\ \A order \in Orders(ledger[t].options) :
                   /\ CloseRes(c, t, order).err \in InvalidState
                   /\ Untouched(CloseRes(c, t, order))
            /\ \A tr \in EndTransients, order \in Orders(ledger[t].options) :
                   (tr.has /\ tr.valid /\ tr.bytes.thread_id = t) =>
                       /\ EndAnonThreadRes(c, tr, order).err \in InvalidState
                       /\ Untouched(EndAnonThreadRes(c, tr, order))

\* C7 witness: a closed poll whose winners tie, closed again by its creator
\* with the options enumerated in another order than the stored one.
C7_Witness ==
    \E c \in Clients, t \in ThreadIDs :
        /\ Exists(t) /\ ledger[t].status # "open"
        /\ ledger[t].creator = GetSubmittingClientIdentity(c)
        /\ Len(ledger[t].win_option) >= 2
        /\ \E order \in Orders(ledger[t].options) :
               /\ Winners(ledger[t].options, order) # ledger[t].win_option
               /\ CloseRes(c, t, order).err \in InvalidState

\* A close by a caller who is not the creator fails and changes nothing.
StrangerCannotClose ==
    \A c \in Clients, t \in ThreadIDs :
        (Exists(t) /\ ledger[t].creator # GetSubmittingClientIdentity(c)) =>
            /\ \A order \in Orders(ledger[t].options) :
                   /\ CloseRes(c, t, order).err \in Unauthorized
                   /\ Untouched(CloseRes(c, t, order))
            /\ \A tr \in EndTransients, order \in Orders(ledger[t].options) :
                   (tr.has /\ tr.valid /\ tr.bytes.thread_id = t) =>
                       /\ EndAnonThreadRes(c, tr, order).err \in Unauthorized
                       /\ Untouched(EndAnonThreadRes(c, tr, order))

\* A step that takes a poll from open to not open is a close by its creator.
ClosedByCreator ==
    \A t \in ThreadIDs :
        (Exists(t) /\ ledger[t].status = "open"
            /\ ledger'[t].status # "open") =>
            \E c \in Clients :
                /\ ledger[t].creator = GetSubmittingClientIdentity(c)
                /\ \/ \E res \in CloseOutcomes(c, t) :
                          res.err = "" /\ ledger' = res.ledger
                   \/ \E tr \in EndTransients :
                          \E res \in EndAnonOutcomes(c, tr) :
                          res.err = "" /\ ledger' = res.ledger

\* C8: a close or reveal-and-close of poll P by a caller other than
\* P.creator fails with Unauthorized and leaves P unchanged; a poll only
\* ever becomes closed through a call by its creator.
C8_OnlyCreatorCloses == []StrangerCannotClose /\ [][ClosedByCreator]_vars

\* C8 witness: an open poll with a recorded vote, which a caller other than
\* the creator tries to close.
C8_Witness ==
    \E c \in Clients, t \in ThreadIDs :
        /\ Exists(t) /\ ledger[t].status = "open"
        /\ ledger[t].creator # GetSubmittingClientIdentity(c)
        /\ redeemed # {}
        /\ \E res \in CloseOutcomes(c, t) : res.err \in Unauthorized

\* C9: CreateVote on poll P by a caller other than P.creator fails with
\* Unauthorized and creates no token; every token that exists for P was
\* issued by P's creator.
C9_OnlyCreatorIssues ==
    /\ \A c \in Clients, t \in ThreadIDs, u \in UserIDs :
           (Exists(t) /\ ledger[t].creator # GetSubmittingClientIdentity(c))
               => /\ IssueRes(c, t, u, nextTx).err \in Unauthorized
                  /\ Untouched(IssueRes(c, t, u, nextTx))
    /\ \A k \in DOMAIN voteState :
           /\ Exists(k[2])
           /\ <<k, ledger[k[2]].creator>> \in issuedBy

\* C9 witness: a poll for which a token exists, and a caller other than the
\* creator asks for another one.
C9_Witness ==
    \E c \in Clients, t \in ThreadIDs, u \in UserIDs :
        /\ Exists(t) /\ ledger[t].creator # GetSubmittingClientIdentity(c)
        /\ \E k \in DOMAIN voteState : k[2] = t
        /\ nextTx <= MaxTx
        /\ IssueRes(c, t, u, nextTx).err \in Unauthorized

\* The tokens that exist for a recipient on a poll.
TokensOf(threadID, userID) ==
    {k \in DOMAIN voteState : k[2] = threadID /\ k[5] = userID}

\* C10: in thread.go, CreateVote(P, R) fails with AlreadyIssued whenever a
\* token exists for recipient R on poll P, so at most one token exists per
\* (poll, recipient).
C10_OneTokenPerRecipient ==
    variant = "flag" =>
        \A t \in ThreadIDs, u \in UserIDs :
            /\ Cardinality(TokensOf(t, u)) <= 1
            /\ TokensOf(t, u) # {} =>
                   \A c \in Clients :
                       CreateVoteRes(c, t, u, nextTx).err # ""

\* How often x occurs in the sequence seq.
Count(seq, x) == Cardinality({i \in DOMAIN seq : seq[i] = x})

\* C11: for an anonymous poll P that holds one commitment, made from the
\* payload {P, tx, O, s}, a reveal-and-close whose transaction ids contain
\* tx once and whose secrets contain s once raises O's count by exactly 1
\* and no other count (1 and 0 on a poll without other votes); if s or tx is
\* absent from the reveal data, no count changes.
C11_RoundTrip ==
    \A c \in Clients, tr \in EndTransients, p \in VotePayloads :
        (/\ tr.has /\ tr.valid /\ tr.bytes.thread_id = p.thread_id
         /\ ledger[p.thread_id].shape = "AnonThread"
         /\ ledger[p.thread_id].status = "open"
         /\ ledger[p.thread_id].votes = <<Sha256(p)>>
         /\ ledger[p.thread_id].creator = GetSubmittingClientIdentity(c)) =>
            \A order \in Orders(ledger[p.thread_id].options) :
                LET before == ledger[p.thread_id].options
                    res == EndAnonThreadRes(c, tr, order)
                    after == res.ledger[p.thread_id].options
                    ntx == Count(tr.bytes.vote_txs, p.tx_id)
                    nkey == Count(tr.bytes.keys, p.private_key)
                IN  /\ res.err = ""
                    /\ (ntx = 1 /\ nkey = 1) =>
                           \A o \in DOMAIN before :
                               Len(after[o]) = Len(before[o]) +
                                   (IF o = p.option THEN 1 ELSE 0)
                    /\ (ntx = 0 \/ nkey = 0) =>
                           \A o \in DOMAIN before :
                               Len(after[o]) = Len(before[o])

\* While a poll is open its winOptions is empty.
WinEmptyWhileOpen ==
    \A t \in ThreadIDs :
        (Exists(t) /\ ledger[t].status = "open") => ledger[t].win_option = <<>>

\* A step creates a poll with the distinct labels it was given and leaves
\* the labels of an existing poll as they are.
OptionsFixed ==
    \A t \in ThreadIDs :
        /\ Exists(t) => DOMAIN ledger'[t].options = DOMAIN ledger[t].options
        /\ (~Exists(t) /\ ledger'[t] # Nil) =>
               \E args \in ArgLists :
                   /\ Len(args) >= 5 /\ args[2] = t
                   /\ DOMAIN ledger'[t].options =
                          Range(SubSeq(args, 6, Len(args)))

\* C12: in every reachable state the option labels of each poll are the
\* labels fixed at its creation (no operation adds or removes one), and
\* winOptions is empty whenever the status is open.
C12_PollStructure == []WinEmptyWhileOpen /\ [][OptionsFixed]_vars

\* C12 witness: a poll of three options that received a vote and was closed
\* with a winner.
C12_Witness ==
    \E t \in ThreadIDs :
        /\ Exists(t) /\ ledger[t].status # "open"
        /\ Cardinality(DOMAIN ledger[t].options) = 3
        /\ \E o \in DOMAIN ledger[t].options : Len(ledger[t].options[o]) > 0
        /\ Len(ledger[t].win_option) = 1

\* The status a successful close of the deployed generation writes.
ClosedStatus == IF variant = "flag" THEN "closed" ELSE "ended"

\* A step that is a successful close or reveal-and-close.
IsClose ==
    \E c \in Clients :
        \/ \E t \in ThreadIDs : \E res \in CloseOutcomes(c, t) :
               res.err = "" /\ ledger' = res.ledger
        \/ \E tr \in EndTransients : \E res \in EndAnonOutcomes(c, tr) :
               res.err = "" /\ ledger' = res.ledger

\* A step creates polls open and changes a status only from open to the
\* status `closed`, by a successful close.
StatusStep(closed) ==
    \A t \in ThreadIDs :
        /\ (~Exists(t) /\ ledger'[t] # Nil) => ledger'[t].status = "open"
        /\ (Exists(t) /\ ledger'[t].status # ledger[t].status) =>
               /\ ledger[t].status = "open"
               /\ ledger'[t].status = closed
               /\ IsClose

StatusOpenOrClosed ==
    \A t \in ThreadIDs : Exists(t) => ledger[t].status \in {"open", "closed"}

StatusOpenOrTerminal ==
    \A t \in ThreadIDs :
        Exists(t) => ledger[t].status \in {"open", ClosedStatus}

CommitRes(c, tr) ==
    IF variant = "bare" THEN UseAnonVoteOldRes(c, tr)
    ELSE UseAnonVoteRes(c, tr)

\* The tokens issued for a poll.
TokensFor(threadID) == {k \in DOMAIN voteState : k[2] = threadID}

\* The transaction ids the stored commitments of a poll were made with.
CommittedTxs(threadID) ==
    {ledger[threadID].votes[i].sha256.tx_id :
        i \in DOMAIN ledger[threadID].votes}

\* C14: after a successful commit (UseAnonVote) carrying transaction id T
\* on poll P, every further commit on P carrying T fails and appends
\* nothing; hence P never holds more commitments than tokens were issued
\* for it.
C14_CommitReplayGuard ==
    \A t \in ThreadIDs :
        /\ \A c \in Clients, tr \in VoteTransients :
               (/\ tr.has /\ tr.valid /\ tr.bytes.thread_id = t
                /\ tr.bytes.tx_id \in CommittedTxs(t)) =>
                   /\ CommitRes(c, tr).err # ""
                   /\ Untouched(CommitRes(c, tr))
        /\ Len(ledger[t].votes) <= Cardinality(TokensFor(t))

\* C15: in the generation whose token is a bare record keyed by (poll,
\* transaction id, organization), a successful cast consumes the token: a
\* second cast with the same handle fails, and each issued token
\* contributes at most one voter entry to the poll's option lists.
C15_BareTokenConsumed ==
    variant = "bare" =>
        \A t \in ThreadIDs :
            /\ \A c \in Clients, tx \in TxIDs, o \in OptionLabels :
                   Spent(BareVoteKey(c, t, tx)) =>
                       /\ UseVoteBareRes(c, t, tx, o).err # ""
                       /\ Untouched(UseVoteBareRes(c, t, tx, o))
            /\ ledger[t].status = "open" =>
                   SumLen(ledger[t].options, DOMAIN ledger[t].options)
                       <= Cardinality(TokensFor(t))

TokenNotFound == {ErrNoVote, ErrNoIssued}
InvalidOption == {ErrOption}

\* The caller holds an unused token under the handle txID on the poll.
Unused(c, threadID, txID) ==
    IF variant = "flag"
    THEN GetVoteState(UseVoteKey(c, threadID, txID)) = "true"
    ELSE /\ GetVoteState(UseVoteKey(c, threadID, txID)) # ""
         /\ txID \in DOMAIN ledger[VotesKey(threadID)].issued
         /\ ~ledger[VotesKey(threadID)].issued[txID]

\* An open poll and an option that is not one of its labels.
BadOption(threadID, option) ==
    /\ Exists(threadID) /\ ledger[threadID].status = "open"
    /\ ~contains(ledger[threadID].options, option)

\* C16 (as stated): a cast on an open poll naming an option that is not one
\* of its labels fails with InvalidOption, appends no vote and leaves the
\* token as it was, whether or not the presented token exists.
C16_InvalidOptionAlways ==
    \A c \in Clients, t \in ThreadIDs, tx \in TxIDs, o \in OptionLabels :
        BadOption(t, o) =>
            /\ CastRes(c, t, tx, o).err \in InvalidOption
            /\ Untouched(CastRes(c, t, tx, o))

\* C16 (amended): a cast or commit on an open poll naming an option that is
\* not one of its labels fails and changes nothing; the error is
\* InvalidOption when the caller presents an unused token of theirs, which
\* stays redeemable with a valid option, and TokenNotFound or
\* TokenAlreadyUsed otherwise, because the token is looked at first.
C16_InvalidOptionFails ==
    \A c \in Clients, t \in ThreadIDs :
        /\ \A tx \in TxIDs, o \in OptionLabels :
               BadOption(t, o) =>
                   /\ Untouched(CastRes(c, t, tx, o))
                   /\ CastRes(c, t, tx, o).err \in
                          (IF Unused(c, t, tx) THEN InvalidOption
                           ELSE TokenNotFound \cup TokenAlreadyUsed)
                   /\ Unused(c, t, tx) =>
                          \A v \in DOMAIN ledger[t].options :
                              CastRes(c, t, tx, v).err = ""
        /\ \A tr \in VoteTransients :
               (/\ variant = "flag"
                /\ tr.has /\ tr.valid /\ tr.bytes.thread_id = t
                /\ BadOption(t, tr.bytes.option)) =>
                   /\ Untouched(UseAnonVoteRes(c, tr))
                   /\ UseAnonVoteRes(c, tr).err \in
                          (IF GetVoteState(UseAnonVoteKey(c, tr)) = "true"
                           THEN InvalidOption
                           ELSE TokenNotFound \cup TokenAlreadyUsed)

\* C16 witness: an open poll with options A and B that holds a vote, and a
\* voter who presents an unused token for an option the poll lacks.
C16_Witness ==
    \E c \in Clients, t \in ThreadIDs, tx \in TxIDs, o \in OptionLabels :
        /\ BadOption(t, o)
        /\ Cardinality(DOMAIN ledger[t].options) = 2
        /\ redeemed # {}
        /\ Unused(c, t, tx)
        /\ CastRes(c, t, tx, o).err \in InvalidOption

\* The results of the invocations clients can submit in the current state,
\* for every input, every enumeration order and either outcome of the
\* platform call after the writes.
Invocations ==
    UNION { { SetEvent(CreateRes(c, args), f) :
                c \in Clients, args \in ArgLists }
            \cup { IssueRes(c, t, u, nextTx) :
                c \in Clients, t \in ThreadIDs, u \in UserIDs }
            \cup { SetEvent(CastRes(c, t, tx, o), f) :
                c \in Clients, t \in ThreadIDs, tx \in TxIDs,
                o \in OptionLabels }
            \cup UNION { { SetEvent(res, f) : res \in CloseOutcomes(c, t) } :
                c \in Clients, t \in ThreadIDs }
            \cup (IF variant = "flag"
                  THEN { SetEvent(CreateAnonThreadRes(c, args), f) :
                           c \in Clients, args \in ArgLists }
                       \cup { SetEvent(UseAnonVoteRes(c, tr), f) :
                           c \in Clients, tr \in VoteTransients }
                       \cup UNION { { SetEvent(res, f) :
                                        res \in EndAnonOutcomes(c, tr) } :
                           c \in Clients, tr \in EndTransients }
                  ELSE {})
          : f \in BOOLEAN }

\* The errors of the checks on arguments, existence, caller, status, token
\* and option.
ValidationErrors ==
    InvalidState \cup TokenAlreadyUsed \cup Unauthorized \cup AlreadyExists
        \cup TokenNotFound \cup InvalidOption
        \cup {ErrArgs, PanicIndex, ErrQuery, ErrHasVote, ErrNoTransient,
              ErrBadTransient, ErrNoEndTransient}

CommitmentsGrow ==
    \A t \in ThreadIDs :
        ledger[t].shape = "AnonThread" =>
            \/ ledger'[t].votes = ledger[t].votes
            \/ /\ Len(ledger'[t].votes) = Len(ledger[t].votes) + 1
               /\ SubSeq(ledger'[t].votes, 1, Len(ledger[t].votes))
                      = ledger[t].votes

\* C18: for an anonymous poll P, across any sequence of operations invoked
\* with P's ID (CreateVote, UseAnonVote, EndAnonThread, and UseVote and
\* EndThread, which rewrite the same key), the stored commitments only grow
\* by one appended hash per successful commit; no stored commitment is
\* removed, reordered or altered.
C18_CommitmentsAppendOnly == [][CommitmentsGrow]_vars

\* A stored poll in its initial state for the caller c and the labels L.
InitialPoll(doc, c, L) ==
    /\ DOMAIN doc.options = Range(L)
    /\ \A o \in DOMAIN doc.options : doc.options[o] = <<>>
    /\ doc.status = "open"
    /\ doc.win_option = <<>>
    /\ doc.creator = GetSubmittingClientIdentity(c)
    /\ doc.votes = <<>>

\* Every create on a free ID succeeds and stores an initial poll.
CreateStoresInitial ==
    \A c \in Clients, args \in ArgLists :
        (Len(args) >= 5 /\ ~Exists(args[2])) =>
            LET L == SubSeq(args, 6, Len(args))
                pub == CreateRes(c, args)
                anon == CreateAnonThreadRes(c, args)
            IN  /\ pub.err = ""
                /\ pub.ledger[args[2]].shape = "Thread"
                /\ InitialPoll(pub.ledger[args[2]], c, L)
                /\ anon.err = ""
                /\ anon.ledger[args[2]].shape = "AnonThread"
                /\ InitialPoll(anon.ledger[args[2]], c, L)

\* A step that makes a poll exist leaves it in the initial state of some
\* create call.
AppearsInitial ==
    \A t \in ThreadIDs :
        (~Exists(t) /\ ledger'[t] # Nil) =>
            \E c \in Clients, args \in ArgLists :
                /\ Len(args) >= 5 /\ args[2] = t
                /\ InitialPoll(ledger'[t], c, SubSeq(args, 6, Len(args)))

\* C19: after a successful create with option labels L the stored poll has
\* exactly the distinct labels of L as option keys, each with an empty
\* vote list, status open, winOptions empty and the caller as creator; an
\* anonymous poll has an empty commitments sequence as well.
C19_InitialState == []CreateStoresInitial /\ [][AppearsInitial]_vars

\* C19 witness: a poll created from the labels A, B, A by bob of Org2: it
\* is open with the two options A and B, no vote and no winner.
C19_Witness ==
    \E t \in ThreadIDs, c \in Clients :
        /\ Exists(t)
        /\ GetMSPID(c) = "Org2MSP"
        /\ InitialPoll(ledger[t], c, <<"A", "B", "A">>)
        /\ ledger[t].shape = "AnonThread"

\* A token was issued for the poll under the handle txID to the caller's
\* enrollment id, by an issuer of the caller's organization.
IssuedTo(c, threadID, txID) ==
    \E r \in issuedBy, i \in Clients :
        /\ r[2] = GetSubmittingClientIdentity(i)
        /\ GetMSPID(i) = GetMSPID(c)
        /\ r[1][2] = threadID /\ r[1][3] = txID
        /\ r[1][5] = EnrollmentID(c)

\* The index of the IssuedVotes generation records the handle as used.
IndexUsed(threadID, txID) ==
    /\ variant = "indexed"
    /\ txID \in DOMAIN ledger[VotesKey(threadID)].issued
    /\ ledger[VotesKey(threadID)].issued[txID]

\* C20 (as stated): a cast on open poll P with handle T by caller V
\* succeeds only if a token was issued for P under T to V by an issuer of
\* V's organization; for every other (handle, caller, organization) the
\* cast fails with TokenNotFound and changes nothing.
C20_TokenBindingNotFound ==
    \A c \in Clients, t \in ThreadIDs, tx \in TxIDs, o \in OptionLabels :
        (Exists(t) /\ ledger[t].status = "open") =>
            /\ CastRes(c, t, tx, o).err = "" => IssuedTo(c, t, tx)
            /\ ~IssuedTo(c, t, tx) =>
                   /\ CastRes(c, t, tx, o).err \in TokenNotFound
                   /\ Untouched(CastRes(c, t, tx, o))

\* C20 (amended): a cast on open poll P with handle T by caller V succeeds
\* only if a token was issued for P under T to V by an issuer of V's
\* organization; for every other (handle, caller, organization) the cast
\* fails and changes nothing, with TokenNotFound, except that the
\* IssuedVotes generation answers TokenAlreadyUsed to every caller once its
\* index records T as used.
C20_TokenBinding ==
    \A c \in Clients, t \in ThreadIDs, tx \in TxIDs, o \in OptionLabels :
        (Exists(t) /\ ledger[t].status = "open") =>
            /\ CastRes(c, t, tx, o).err = "" => IssuedTo(c, t, tx)
            /\ ~IssuedTo(c, t, tx) =>
                   /\ CastRes(c, t, tx, o).err \in
                          (IF IndexUsed(t, tx) THEN TokenAlreadyUsed
                           ELSE TokenNotFound)
                   /\ Untouched(CastRes(c, t, tx, o))

\* C20 witness: an unused token issued to an enrollment id, presented for
\* a valid option by a caller of that enrollment id from another
\* organization than the issuer's.
C20_Witness ==
    \E c, d \in Clients, t \in ThreadIDs, tx \in TxIDs, o \in OptionLabels :
        /\ Exists(t) /\ ledger[t].status = "open"
        /\ contains(ledger[t].options, o)
        /\ EnrollmentID(c) = EnrollmentID(d) /\ GetMSPID(c) # GetMSPID(d)
        /\ IssuedTo(d, t, tx) /\ ~IssuedTo(c, t, tx)
        /\ CastRes(d, t, tx, o).err = ""
        /\ CastRes(c, t, tx, o).err \in TokenNotFound

MalformedInput == {ErrArgs, ErrNoTransient, ErrBadTransient, ErrNoEndTransient}

\* C21: CreateThread / CreateAnonThread invoked with an argument list too
\* short to hold function name, poll ID, category, theme and description
\* (every length from 0 to 4) returns the error 'not enough arguments' and
\* writes nothing; it never aborts in another way.
C21_ShortArgsRejected ==
    \A c \in Clients, args \in ArgLists :
        Len(args) <= 4 =>
            /\ CreateRes(c, args).err = ErrArgs
            /\ Untouched(CreateRes(c, args))
            /\ CreateAnonThreadRes(c, args).err = ErrArgs
            /\ Untouched(CreateAnonThreadRes(c, args))

\* A cast in flight whose snapshot has been overtaken by a committed write.
StaleCasts == {i \in 1..Len(pending) :
                  pending[i].cast # {} /\ ~Valid(pending[i])}

\* C22: when casts on one poll are endorsed against the same snapshot and
\* committed under read-set validation, tally and tokens stay consistent in
\* every reachable state: every option lists as many votes as casts were
\* committed for it, the poll holds as many votes as it has used tokens, a
\* token is marked used exactly when a cast with it was committed (a rejected
\* cast leaves its token unused), and no token is committed twice.
C22_ConcurrentCasts ==
    \A t \in ThreadIDs :
        /\ \A o \in DOMAIN ledger[t].options :
               Len(ledger[t].options[o]) =
                   Cardinality({r \in redeemed : r[1][2] = t /\ r[2] = o})
        /\ SumLen(ledger[t].options, DOMAIN ledger[t].options) =
               Cardinality(UsedTokens(t))
        /\ \A k \in DOMAIN voteState :
               k[2] = t => (voteState[k] = "false" <=> Spent(k))
        /\ \A r1, r2 \in redeemed : r1[1] = r2[1] => r1 = r2

\* C22 witness: one of two concurrent casts with different tokens has been
\* committed, and the other, endorsed against the same snapshot, is in
\* flight with a stale read of the poll.
C22_Witness ==
    \E i \in StaleCasts, q \in redeemed :
        /\ \A r \in pending[i].cast : r[1] # q[1]
        /\ {w[1] : w \in pending[i].writes.voteState} \cap
               UsedTokens("P1") = {}

\* The winners stored in a closed poll are the maximal options of the
\* option lists stored with them.
ClosedWinnersCurrent ==
    \A t \in ThreadIDs :
        ledger[t].status = "closed" =>
            Range(ledger[t].win_option) = MaxOptions(ledger[t].options)

\* No step records a vote in a poll whose winners were computed.
NoVoteAfterClose ==
    \A t \in ThreadIDs :
        ledger[t].status = "closed" => ledger'[t].options = ledger[t].options

\* C23: in every interleaving of a close with concurrent casts resolved by
\* read-set validation, a closed poll has winOptions equal, as a set, to the
\* options of maximal length in its stored options, and no vote is recorded
\* in a poll after its winners were computed.
C23_CloseVersusCast == []ClosedWinnersCurrent /\ [][NoVoteAfterClose]_vars

\* C23 witness: the poll is closed with a vote recorded, and a cast that
\* was endorsed while the poll was open is still in flight.
C23_Witness ==
    \E t \in ThreadIDs :
        /\ ledger[t].status = "closed"
        /\ SumLen(ledger[t].options, DOMAIN ledger[t].options) > 0
        /\ StaleCasts # {}

\* The tuples (position of a stored commitment, position in the revealed
\* transaction ids, position in the revealed secrets) whose hash over the
\* poll, the transaction id, option o and the secret is the commitment.
RevealTuples(t, endData, o) ==
    { <<v, i, j>> \in (1..Len(ledger[t].votes))
                      \X (1..Len(endData.vote_txs))
                      \X (1..Len(endData.keys)) :
        Sha256(AnonVoteJSON(t, endData.vote_txs[i], o, endData.keys[j],
                            "compact")) = ledger[t].votes[v] }

DuplicateFree(seq) == Cardinality(Range(seq)) = Len(seq)

\* C24: a successful reveal-and-close adds to every option O as many
\* markers as there are tuples (commitment, position in transactionIDs,
\* position in secrets) whose hash is the commitment: matches are counted
\* with multiplicity, and when both lists are duplicate-free a commitment
\* adds at most one vote.
C24_RevealMultiplicity ==
    \A c \in Clients, tr \in EndTransients :
        \A order \in LoopOrders(EndAnonThreadRes(c, tr, <<>>).err,
                                EndAnonOptions(tr)) :
            LET res == EndAnonThreadRes(c, tr, order)
                t == tr.bytes.thread_id
            IN  (variant = "flag" /\ res.err = "") =>
                    /\ \A o \in DOMAIN ledger[t].options :
                           Len(res.ledger[t].options[o]) =
                               Len(ledger[t].options[o]) +
                               Cardinality(RevealTuples(t, tr.bytes, o))
                    /\ (DuplicateFree(tr.bytes.keys) /\
                        DuplicateFree(tr.bytes.vote_txs)) =>
                           \A v \in 1..Len(ledger[t].votes) :
                               Cardinality(
                                   {m \in UNION {{o} \X RevealTuples(
                                                     t, tr.bytes, o) :
                                          o \in DOMAIN ledger[t].options} :
                                       m[2][1] = v}) <= 1

\* C24 witness: a closed anonymous poll that stores one commitment and
\* counts two votes for one option: the reveal listed the matching secret
\* or transaction id twice.
C24_Witness ==
    \E t \in ThreadIDs :
        /\ ledger[t].status = "closed"
        /\ Len(ledger[t].votes) = 1
        /\ \E o \in DOMAIN ledger[t].options : Len(ledger[t].options[o]) = 2

\* The vote keys a step creates.
NewTokens == (DOMAIN voteState') \ (DOMAIN voteState)

\* C25 (as stated): CreateVote on a poll that is not open fails with
\* InvalidState and writes nothing, whoever calls it and whichever
\* generation is deployed.
C25_IssuanceRequiresOpen ==
    \A c \in Clients, t \in ThreadIDs, u \in UserIDs :
        (Exists(t) /\ ledger[t].status # "open" /\ nextTx <= MaxTx) =>
            /\ IssueRes(c, t, u, nextTx).err \in InvalidState
            /\ Untouched(IssueRes(c, t, u, nextTx))

\* CreateVote of thread.go on a poll that is not open fails and writes
\* nothing: with InvalidState for the creator, with Unauthorized for any
\* other caller. CreateVote of the IssuedVotes generation has no InvalidState
\* failure: called by the creator of a closed poll it writes a token.
IssueOnClosed ==
    \A c \in Clients, t \in ThreadIDs, u \in UserIDs :
        (Exists(t) /\ ledger[t].status # "open" /\ nextTx <= MaxTx) =>
            LET res == IssueRes(c, t, u, nextTx)
                byCreator == ledger[t].creator = GetSubmittingClientIdentity(c)
            IN  IF variant = "flag"
                THEN /\ Untouched(res)
                     /\ res.err \in (IF byCreator THEN InvalidState
                                     ELSE Unauthorized)
                ELSE /\ res.err \notin InvalidState
                     /\ byCreator =>
                            CreateVoteKey(c, t, u, nextTx)
                                \in DOMAIN res.voteState

\* Under thread.go a token is only ever created for a poll that is open.
IssuedWhileOpen ==
    variant = "flag" => \A k \in NewTokens : ledger[k[2]].status = "open"

\* C25 (amended): issuance requires an open poll in the thread.go
\* generation only, where a CreateVote on a closed poll fails with
\* InvalidState (Unauthorized when the caller is not the creator), writes
\* nothing, and every token was created while its poll was open; the
\* IssuedVotes generation issues tokens whatever the status of the poll.
C25_IssuanceOpenFlagOnly == []IssueOnClosed /\ [][IssuedWhileOpen]_vars

\* C25 witness: under thread.go a poll that has a token is closed while a
\* further transaction id is available for an issuance.
C25_Witness ==
    \E t \in ThreadIDs :
        /\ variant = "flag"
        /\ ledger[t].status = "closed"
        /\ \E k \in DOMAIN voteState : k[2] = t
        /\ nextTx <= MaxTx

\* The fields of a poll record a cast must leave alone.
SameButOptions(old, new) ==
    /\ new.category = old.category
    /\ new.theme = old.theme
    /\ new.description = old.description
    /\ new.creator = old.creator
    /\ new.status = old.status
    /\ new.win_option = old.win_option
    /\ DOMAIN new.options = DOMAIN old.options

\* A successful cast appends the voter's identity to the chosen option and
\* marks the presented token used; everything else stays.
CastFrame ==
    \A c \in Clients, t \in ThreadIDs, tx \in TxIDs, o \in OptionLabels :
        LET res == CastRes(c, t, tx, o)
            key == UseVoteKey(c, t, tx)
        IN  res.err = "" =>
                /\ SameButOptions(ledger[t], res.ledger[t])
                /\ res.ledger[t].options[o] =
                       Append(ledger[t].options[o], EnrollmentID(c))
                /\ \A p \in DOMAIN ledger[t].options \ {o} :
                       res.ledger[t].options[p] = ledger[t].options[p]
                /\ DOMAIN res.voteState = DOMAIN voteState
                /\ \A k \in DOMAIN voteState \ {key} :
                       res.voteState[k] = voteState[k]
                /\ IF variant = "flag"
                   THEN /\ voteState[key] = "true"
                        /\ res.voteState[key] = "false"
                        /\ \A k \in LedgerKeys \ {t} :
                               res.ledger[k] = ledger[k]
                   ELSE /\ res.voteState[key] = voteState[key]
                        /\ ~ledger[VotesKey(t)].issued[tx]
                        /\ res.ledger[VotesKey(t)].issued[tx]
                        /\ \A k \in LedgerKeys \ {t, VotesKey(t)} :
                               res.ledger[k] = ledger[k]

\* A successful issue creates one token and changes no poll and no other
\* token.
IssueFrame ==
    \A c \in Clients, t \in ThreadIDs, u \in UserIDs :
        LET res == IssueRes(c, t, u, nextTx)
            key == CreateVoteKey(c, t, u, nextTx)
        IN  (nextTx <= MaxTx /\ res.err = "") =>
                /\ \A p \in ThreadIDs : res.ledger[p] = ledger[p]
                /\ key \notin DOMAIN voteState
                /\ DOMAIN res.voteState = DOMAIN voteState \cup {key}
                /\ \A k \in DOMAIN voteState : res.voteState[k] = voteState[k]

\* No step changes the creator of a poll that exists.
CreatorFixed ==
    \A t \in ThreadIDs :
        Exists(t) => ledger'[t].creator = ledger[t].creator

\* C26: a successful cast on poll P for option O appends exactly one entry,
\* the caller's identity, at the end of P.options[O] and marks the presented
\* token used, and leaves P's other fields, the other options' lists and
\* every other poll and token unchanged; a successful issue creates one
\* token and changes no poll record; the creator of a poll never changes
\* after creation.
C26_CastIssueFrame == [](CastFrame /\ IssueFrame) /\ [][CreatorFixed]_vars

\* C26 witness: a cast has succeeded, the voter's identity is the last
\* entry of the option chosen, and another token of the poll is unused.
C26_Witness ==
    \E r \in redeemed, k \in DOMAIN voteState :
        LET list == ledger[r[1][2]].options[r[2]]
        IN  /\ Len(list) >= 1
            /\ list[Len(list)] = r[1][5]
            /\ k[2] = r[1][2]
            /\ k \notin UsedTokens(k[2])

\* C27: after any sequence of CreateAnonThread, CreateVote and UseAnonVote,
\* while the poll is open every option's list is empty and the poll stores
\* as many commitments as it has tokens marked used.
C27_AnonOpenHidden ==
    \A t \in ThreadIDs :
        (Exists(t) /\ ledger[t].status = "open") =>
            /\ \A o \in DOMAIN ledger[t].options : ledger[t].options[o] = <<>>
            /\ Len(ledger[t].votes) = Cardinality(UsedTokens(t))

\* C27 witness: an open anonymous poll with options that stores two
\* commitments and has two tokens marked used.
C27_Witness ==
    \E t \in ThreadIDs :
        /\ ledger[t].status = "open"
        /\ DOMAIN ledger[t].options # {}
        /\ Len(ledger[t].votes) = 2
        /\ Cardinality(UsedTokens(t)) = 2

\* The identities listed in the option lists of a poll.
Voters(t) ==
    UNION {Range(ledger[t].options[o]) : o \in DOMAIN ledger[t].options}

\* The number of times voter v is listed in poll t.
TimesListed(t, v) ==
    Cardinality({<<o, i>> \in (DOMAIN ledger[t].options) \X (1..MaxTx) :
                    /\ i <= Len(ledger[t].options[o])
                    /\ ledger[t].options[o][i] = v})

\* C28: after any sequence of issue and cast operations on a poll, no voter
\* identity occurs more than once across all option lists of the poll.
C28_OneVoterOneVote ==
    \A t \in ThreadIDs : \A v \in Voters(t) : TimesListed(t, v) <= 1

\* No step changes the stored record of a poll that is not open.
ClosedRecordKept ==
    \A t \in ThreadIDs :
        (Exists(t) /\ ledger[t].status # "open") => ledger'[t] = ledger[t]

\* C29: closed is terminal: once the status of a poll is no longer open, no
\* operation by any caller (create with the same ID, issue, cast, close,
\* anonymous commit, reveal-and-close) changes the poll's stored record.
C29_ClosedTerminal == [][ClosedRecordKept]_vars

\* C29 witness: a closed poll with a vote recorded that still has an unused
\* token, so that casts, issuances and closes are there to be refused.
C29_Witness ==
    \E t \in ThreadIDs, k \in DOMAIN voteState :
        /\ Exists(t) /\ ledger[t].status # "open"
        /\ SumLen(ledger[t].options, DOMAIN ledger[t].options) > 0
        /\ k[2] = t
        /\ k \notin UsedTokens(t)

\* The winners of a degenerate tally: none exactly when the poll has no
\* option, and every option once when no vote was cast.
DegenerateWinners(options, winOptions) ==
    /\ winOptions # <<>> <=> DOMAIN options # {}
    /\ SumLen(options, DOMAIN options) = 0 =>
           /\ Range(winOptions) = DOMAIN options
           /\ Len(winOptions) = Cardinality(DOMAIN options)
    /\ DOMAIN options = {} => winOptions = <<>>

\* C30: after a successful close, winOptions is non-empty if and only if
\* the poll has at least one option; when no vote was cast winOptions
\* contains every option of the poll, and a poll created with zero option
\* labels closes with winOptions empty.
C30_DegenerateTallies ==
    \A t \in ThreadIDs :
        /\ (Exists(t) /\ ledger[t].status # "open") =>
               DegenerateWinners(ledger[t].options, ledger[t].win_option)
        /\ \A c \in Clients :
               \A order \in LoopOrders(CloseRes(c, t, <<>>).err,
                                       ledger[t].options) :
                   CloseRes(c, t, order).err = "" =>
                       DegenerateWinners(
                           CloseRes(c, t, order).ledger[t].options,
                           CloseRes(c, t, order).ledger[t].win_option)

\* C30 witness: a poll of three options was closed without a vote, and all
\* three options are its winners.
C30_Witness ==
    \E t \in ThreadIDs :
        /\ Exists(t) /\ ledger[t].status # "open"
        /\ Cardinality(DOMAIN ledger[t].options) = 3
        /\ SumLen(ledger[t].options, DOMAIN ledger[t].options) = 0
        /\ Len(ledger[t].win_option) = 3

\* The stored commitments of a poll that no pair of a revealed transaction
\* id and a revealed secret opens, for any option.
Unrevealed(t, endData) ==
    {v \in 1..Len(ledger[t].votes) :
        \A o \in DOMAIN ledger[t].options :
            \A m \in RevealTuples(t, endData, o) : m[1] # v}

\* The end transients that parse and name poll t.
RevealsOf(t) ==
    {tr \in EndTransients : tr.has /\ tr.valid /\ tr.bytes.thread_id = t}

\* A reveal-and-close by the creator of an open anonymous poll succeeds
\* and closes the poll whatever the lists hold; when every commitment is
\* left unrevealed no option gains a marker, and with duplicate-free lists
\* an unrevealed commitment leaves the tally below the number of
\* commitments.
RevealAlwaysCloses ==
    \A c \in Clients, t \in ThreadIDs :
        (/\ variant = "flag"
         /\ ledger[t].shape = "AnonThread"
         /\ ledger[t].status = "open"
         /\ ledger[t].creator = GetSubmittingClientIdentity(c)) =>
            \A tr \in RevealsOf(t) :
                \A order \in Orders(ledger[t].options) :
                    LET res == EndAnonThreadRes(c, tr, order)
                        unrevealed == Unrevealed(t, tr.bytes)
                    IN  /\ res.err = ""
                        /\ res.ledger[t].status = "closed"
                        /\ res.ledger[t].votes = ledger[t].votes
                        /\ Cardinality(unrevealed) = Len(ledger[t].votes) =>
                               res.ledger[t].options = ledger[t].options
                        /\ (/\ unrevealed # {}
                            /\ DuplicateFree(tr.bytes.keys)
                            /\ DuplicateFree(tr.bytes.vote_txs)) =>
                               SumLen(res.ledger[t].options,
                                      DOMAIN ledger[t].options)
                                   - SumLen(ledger[t].options,
                                            DOMAIN ledger[t].options)
                                   < Len(ledger[t].votes)

\* No step adds a marker to an anonymous poll that is closed.
NoLateCount ==
    \A t \in ThreadIDs :
        (ledger[t].shape = "AnonThread" /\ ledger[t].status = "closed") =>
            ledger'[t].options = ledger[t].options

\* C31: unrevealed commitments are dropped silently: a reveal-and-close by
\* the creator on an open anonymous poll succeeds and closes the poll for
\* every pair of secrets and transaction id lists, empty or incomplete ones
\* included; a commitment that matches no candidate adds to no option, so
\* the total tallied can be smaller than the number of commitments, and
\* such a vote is never counted afterwards.
C31_UnrevealedDropped == []RevealAlwaysCloses /\ [][NoLateCount]_vars

\* C31 witness: a closed anonymous poll that stores more commitments than
\* it counts votes.
C31_Witness ==
    \E t \in ThreadIDs :
        /\ ledger[t].shape = "AnonThread"
        /\ ledger[t].status = "closed"
        /\ SumLen(ledger[t].options, DOMAIN ledger[t].options)
               < Len(ledger[t].votes)

\* A transaction in flight that closes poll t.
IsCloseTx(tx, t) ==
    \E w \in tx.writes.ledger : w[1] = t /\ w[2].status = "closed"

\* The endorsement of a close by the creator of an open poll succeeds.
CreatorCloseEndorsed ==
    \A c \in Clients, t \in ThreadIDs :
        (/\ Exists(t)
         /\ ledger[t].status = "open"
         /\ ledger[t].creator = GetSubmittingClientIdentity(c)) =>
            \A order \in Orders(ledger[t].options) :
                /\ EndThreadRes(c, t, order).err = ""
                /\ EndThreadRes(c, t, order).ledger[t].status = "closed"

\* The delivery of a close that no committed write has overtaken closes
\* the poll.
ValidCloseCloses ==
    \A i \in 1..Len(pending), t \in ThreadIDs :
        (/\ pending' = Remove(pending, i)
         /\ IsCloseTx(pending[i], t)
         /\ Valid(pending[i])) =>
            ledger'[t].status = "closed"

\* C32: a poll can always be closed: in every reachable state where the
\* poll is open, a close submitted by its creator that is not invalidated
\* by a conflicting concurrent write succeeds, and when the creator submits
\* the close again after each rejection the poll eventually becomes closed:
\* casts cannot block closing forever.
C32_CloseEventually ==
    /\ []CreatorCloseEndorsed
    /\ [][ValidCloseCloses]_vars
    /\ \A t \in ThreadIDs :
           (Exists(t) /\ ledger[t].status = "open")
               ~> (ledger[t].status = "closed")

\* C32 witness: a close of the creator is in flight with a stale read,
\* overtaken by a committed cast, and the poll is still open.
C32_Witness ==
    \E i \in 1..Len(pending), t \in ThreadIDs :
        /\ IsCloseTx(pending[i], t)
        /\ ~Valid(pending[i])
        /\ ledger[t].status = "open"
        /\ redeemed # {}

\* The ledger keys whose value a result changes.
Changed(res) == {k \in LedgerKeys : res.ledger[k] # ledger[k]}

\* C33: in the IssuedVotes generation a successful CreateThread for ID X
\* writes only the keys X and X + "_votes" and never overwrites a key that
\* already holds another poll's record: when a poll with ID X + "_votes"
\* exists, creating X leaves that poll as it is.
C33_IndexKeyIsolation ==
    \A c \in Clients, args \in IndexArgLists :
        LET res == CreateThreadIVRes(c, args)
        IN  res.err = "" =>
                /\ Changed(res) \subseteq {args[2], VotesKey(args[2])}
                /\ \A k \in LedgerKeys :
                       ledger[k].shape = "Thread" =>
                           res.ledger[k] = ledger[k]

====
